---- MODULE Spec2Model ----
(***************************************************************************)
(* Model of the localizer bearing enhancer for FAA CIFP (ARINC 424) data:   *)
(* package arinc (record shapes, coordinate codec) and package enhance      *)
(* (Process, preProcess, processRecord, processLocalizer).                  *)
(*                                                                         *)
(* A record is the sequence of its bytes, one one-character string per      *)
(* column.  Identifiers are byte sequences too.  A position is a pair      *)
(* <<lat, lon>> in hundredths of an arc second (1/360000 degree); a bearing *)
(* is in 1/10000 degree.                                                    *)
(***************************************************************************)
EXTENDS Integers, Sequences, FiniteSets, TLC

VARIABLES
    opt,    \* processor.RemoveDuplicateLocalizers
    pc,     \* where Process is: "prepass", "seek", "main", "done", "failed";
            \* where main is outside it: "open", "create", "exit0", "exit1"
    file,   \* the lines of the input read by the first scan so far
    pos,    \* number of lines the main pass has read
    p,      \* the processor: Airports, OtherWaypoints, DuplicateLocalizers
    out,    \* the bytes written to the output
    last,   \* arguments, locals and results of the latest processRecord call
    fault,  \* the operation of in or out that fails: "none", "preread",
            \* "seek", "read", "write"
    open    \* the files main has opened and not closed: "in", "out"

vars == <<opt, pc, file, pos, p, out, last, fault, open>>

\* Number of records of an input file of the correlation specification.
MaxFileLen == 4
\* Number of records of an input file of the record-kind specification.
MaxKindsLen == 3
\* Number of records of an input file of the duplicate-localizer
\* specifications.
MaxDupLen == 4
\* Number of records of an input file read or written with failures.
MaxIOLen == 3
\* Number of lines of an input file with lines shorter than a record.
MaxShortLen == 3
\* Number of records of an input file of the index specification.
MaxIndexLen == 3
\* Number of records of an input file of the approach specification.
MaxApproachLen == 3
\* Number of records of an input file of the bearing specification.
MaxBearingLen == 3
\* Number of records of an input file of the global-waypoint specification.
MaxGlobalLen == 4
\* Number of bearings of the walk round the circle that EncodeBearing is given.
MaxBearings == 60

\* Width of a record: the last column a record shape names.
RecordWidth == 132

(***************************************************************************)
(* Byte strings                                                            *)
(***************************************************************************)
Max(S) == CHOOSE x \in S : \A y \in S : y <= x

Min2(a, b) == IF a <= b THEN a ELSE b

Blank(n) == [i \in 1..n |-> " "]

\* strings.TrimRight(s, " "): what decoding a left-aligned field strips.
TrimRight(s) ==
    LET idx == {i \in 1..Len(s) : s[i] # " "}
    IN  IF idx = {} THEN <<>> ELSE SubSeq(s, 1, Max(idx))

\* The value of a field tagged `fixed:"start,end"`, without the alignment:
\* blanks are stripped on both sides.
FieldTrimSpace(raw, start, end) ==
    LET s == IF start > Len(raw) THEN <<>>
             ELSE TrimRight(SubSeq(raw, start, Min2(end, Len(raw))))
        idx == {i \in 1..Len(s) : s[i] # " "}
    IN  IF idx = {} THEN <<>>
        ELSE SubSeq(s, CHOOSE i \in idx : \A j \in idx : i <= j, Len(s))

\* The value of a field tagged `fixed:"start,end,left"` in a raw value.
Field(raw, start, end) ==
    IF start > Len(raw) THEN <<>>
    ELSE TrimRight(SubSeq(raw, start, Min2(end, Len(raw))))

\* A value written left-aligned into a field w columns wide.
Pad(v, w) == IF Len(v) >= w THEN SubSeq(v, 1, w) ELSE v \o Blank(w - Len(v))

\* A struct written as a line of the given width: fields is the sequence of
\* <<start, end, value>> in column order, col the next column to write.
\* Columns no field names are blank.
RECURSIVE Encode(_, _, _)
Encode(fields, col, width) ==
    IF fields = <<>> THEN Blank(width - col + 1)
    ELSE LET f == Head(fields)
         IN  Blank(f[1] - col) \o Pad(f[3], f[2] - f[1] + 1)
                 \o Encode(Tail(fields), f[2] + 1, width)

(***************************************************************************)
(* arinc: constants                                                        *)
(***************************************************************************)
SectionCodeNavaid == <<"D">>
SectionCodeEnroute == <<"E">>
SectionCodeAirport == <<"P">>
SubsectionCodeNavaidNDB == <<"B">>
SubsectionCodeNavaidVHF == <<>>
SubsectionCodeEnrouteWaypoint == <<"A">>
SubsectionCodeTerminalWaypoint == <<"C">>
SubsectionCodeApproachProcedure == <<"F">>
SubsectionCodeLocGS == <<"I">>
ContinuationRecordSimulation == <<"S">>
LocalizerBearingSourceNotGovt == <<"N">>

(***************************************************************************)
(* arinc: record shapes, decoded from and encoded to their columns         *)
(***************************************************************************)
UnmarshalRecord(raw) ==
    [RecordType       |-> Field(raw, 1, 1),
     CustomerAreaCode |-> Field(raw, 2, 4),
     SectionCode      |-> Field(raw, 5, 5),
     SubsectionCode   |-> Field(raw, 6, 6),
     Data             |-> Field(raw, 7, 123),
     FileRecordNumber |-> Field(raw, 124, 128),
     CycleDate        |-> Field(raw, 129, 132)]

MarshalRecord(r) ==
    Encode(<< <<1, 1, r.RecordType>>, <<2, 4, r.CustomerAreaCode>>,
              <<5, 5, r.SectionCode>>, <<6, 6, r.SubsectionCode>>,
              <<7, 123, r.Data>>, <<124, 128, r.FileRecordNumber>>,
              <<129, 132, r.CycleDate>> >>, 1, RecordWidth)

UnmarshalAirportEnrouteRecord(raw) ==
    [Record         |-> UnmarshalRecord(Field(raw, 1, 6)),
     AirportID      |-> Field(raw, 7, 10),
     ICAOCode       |-> Field(raw, 11, 12),
     SubsectionCode |-> Field(raw, 13, 13),
     Data           |-> Field(raw, 14, 123)]

MarshalAirportEnrouteRecord(a) ==
    Encode(<< <<1, 6, MarshalRecord(a.Record)>>, <<7, 10, a.AirportID>>,
              <<11, 12, a.ICAOCode>>, <<13, 13, a.SubsectionCode>>,
              <<14, 123, a.Data>> >>, 1, 123)

UnmarshalNDBNavaidRecord(raw) ==
    [Record       |-> UnmarshalRecord(Field(raw, 1, 6)),
     NDBID        |-> Field(raw, 14, 17),
     NDBLatitude  |-> Field(raw, 33, 41),
     NDBLongitude |-> Field(raw, 42, 51)]

UnmarshalVHFNavaidRecord(raw) ==
    [Record       |-> UnmarshalRecord(Field(raw, 1, 6)),
     VORID        |-> Field(raw, 14, 17),
     VORLatitude  |-> Field(raw, 33, 41),
     VORLongitude |-> Field(raw, 42, 51)]

UnmarshalWaypointPrimaryRecord(raw) ==
    [AirportEnrouteRecord |-> UnmarshalAirportEnrouteRecord(Field(raw, 1, 13)),
     WaypointID           |-> Field(raw, 14, 18),
     WaypointLatitude     |-> Field(raw, 33, 41),
     WaypointLongitude    |-> Field(raw, 42, 51)]

UnmarshalAirportProcedurePrimaryRecord(raw) ==
    [AirportEnrouteRecord    |-> UnmarshalAirportEnrouteRecord(Field(raw, 1, 13)),
     ProcedureID             |-> Field(raw, 14, 19),
     FixID                   |-> Field(raw, 30, 34),
     WaypointDescriptionCode |-> Field(raw, 40, 43),
     RecommendedNavaid       |-> Field(raw, 51, 54)]

UnmarshalAirportLocGSPrimaryRecord(raw) ==
    [AirportEnrouteRecord             |-> UnmarshalAirportEnrouteRecord(Field(raw, 1, 13)),
     LocalizerID                      |-> Field(raw, 14, 17),
     ILSCategory                      |-> Field(raw, 18, 18),
     ContinuationRecordNumber         |-> Field(raw, 22, 22),
     LocalizerFrequency               |-> Field(raw, 23, 27),
     RunwayIdentifier                 |-> Field(raw, 28, 32),
     LocalizerLatitude                |-> Field(raw, 33, 41),
     LocalizerLongitude               |-> Field(raw, 42, 51),
     LocalizerBearing                 |-> Field(raw, 52, 55),
     GlideSlopeLatitude               |-> Field(raw, 56, 64),
     GlideSlopeLongitude              |-> Field(raw, 65, 74),
     LocalizerPosition                |-> Field(raw, 75, 78),
     LocalizerPositionReference       |-> Field(raw, 79, 79),
     GlideSlopePosition               |-> Field(raw, 80, 83),
     LocalizerWidth                   |-> Field(raw, 84, 87),
     GlideSlopeAngle                  |-> Field(raw, 88, 90),
     StationDeclination               |-> Field(raw, 91, 95),
     GlideSlopeHeightAtThreshold      |-> Field(raw, 96, 97),
     GlideSlopeElevation              |-> Field(raw, 98, 102),
     SupportingFacilityID             |-> Field(raw, 103, 106),
     SupportingFacilityICAOCode       |-> Field(raw, 107, 108),
     SupportingFacilitySectionCode    |-> Field(raw, 109, 109),
     SupportingFacilitySubsectionCode |-> Field(raw, 110, 110),
     Data                             |-> Field(raw, 124, 132)]

MarshalAirportLocGSPrimaryRecord(loc) ==
    Encode(<< <<1, 13, MarshalAirportEnrouteRecord(loc.AirportEnrouteRecord)>>,
              <<14, 17, loc.LocalizerID>>,
              <<18, 18, loc.ILSCategory>>,
              <<22, 22, loc.ContinuationRecordNumber>>,
              <<23, 27, loc.LocalizerFrequency>>,
              <<28, 32, loc.RunwayIdentifier>>,
              <<33, 41, loc.LocalizerLatitude>>,
              <<42, 51, loc.LocalizerLongitude>>,
              <<52, 55, loc.LocalizerBearing>>,
              <<56, 64, loc.GlideSlopeLatitude>>,
              <<65, 74, loc.GlideSlopeLongitude>>,
              <<75, 78, loc.LocalizerPosition>>,
              <<79, 79, loc.LocalizerPositionReference>>,
              <<80, 83, loc.GlideSlopePosition>>,
              <<84, 87, loc.LocalizerWidth>>,
              <<88, 90, loc.GlideSlopeAngle>>,
              <<91, 95, loc.StationDeclination>>,
              <<96, 97, loc.GlideSlopeHeightAtThreshold>>,
              <<98, 102, loc.GlideSlopeElevation>>,
              <<103, 106, loc.SupportingFacilityID>>,
              <<107, 108, loc.SupportingFacilityICAOCode>>,
              <<109, 109, loc.SupportingFacilitySectionCode>>,
              <<110, 110, loc.SupportingFacilitySubsectionCode>>,
              <<124, 132, loc.Data>> >>, 1, RecordWidth)

MarshalAirportLocGSSimContinuationRecord(c) ==
    Encode(<< <<1, 13, MarshalAirportEnrouteRecord(c.AirportEnrouteRecord)>>,
              <<14, 17, c.LocalizerID>>,
              <<18, 18, c.ILSCategory>>,
              <<22, 22, c.ContinuationRecordNumber>>,
              <<23, 23, c.ApplicationType>>,
              <<24, 27, c.FacilityCharacteristics>>,
              <<52, 56, c.LocalizerTrueBearing>>,
              <<57, 57, c.LocalizerBearingSource>>,
              <<88, 90, c.GlideSlopeBeamWidth>>,
              <<91, 96, c.ApproachRouteIdent1>>,
              <<97, 102, c.ApproachRouteIdent2>>,
              <<103, 108, c.ApproachRouteIdent3>>,
              <<109, 114, c.ApproachRouteIdent4>>,
              <<115, 120, c.ApproachRouteIdent5>>,
              <<124, 132, c.Data>> >>, 1, RecordWidth)

IsLocalizerFrontCourseApproach(apch) ==
    LET id == apch.ProcedureID
    IN  Len(id) >= 1 /\ id[1] \in {"I", "L", "U", "X"}

\* A test that takes every leg for the final approach fix.
IsFinalApproachFixAlways(apch) == TRUE

IsFinalApproachFix(apch) ==
    LET d == apch.WaypointDescriptionCode
    IN  Len(d) >= 4 /\ d[4] = "F"

(***************************************************************************)
(* arinc: coordinate codec                                                 *)
(***************************************************************************)
Digits == {"0", "1", "2", "3", "4", "5", "6", "7", "8", "9"}

DigitValue(c) ==
    CASE c = "0" -> 0 [] c = "1" -> 1 [] c = "2" -> 2 [] c = "3" -> 3
      [] c = "4" -> 4 [] c = "5" -> 5 [] c = "6" -> 6 [] c = "7" -> 7
      [] c = "8" -> 8 [] c = "9" -> 9

IsDigits(s) == Len(s) > 0 /\ \A i \in 1..Len(s) : s[i] \in Digits

RECURSIVE Decimal(_)
Decimal(s) ==
    IF s = <<>> THEN 0
    ELSE 10 * Decimal(SubSeq(s, 1, Len(s) - 1)) + DigitValue(s[Len(s)])

IsSigned(s) == Len(s) > 1 /\ s[1] \in {"+", "-"} /\ IsDigits(Tail(s))

\* An Atoi whose error is dropped (degrees, _ := strconv.Atoi(...)): a text
\* that is no number reads as 0.
AtoiIgnoreError(s) ==
    IF IsDigits(s) THEN [ok |-> TRUE, val |-> Decimal(s)]
    ELSE IF IsSigned(s)
         THEN [ok |-> TRUE,
               val |-> IF s[1] = "-" THEN 0 - Decimal(Tail(s)) ELSE Decimal(Tail(s))]
         ELSE [ok |-> TRUE, val |-> 0]

\* strconv.Atoi on the bytes a coordinate field can hold here (digits, a
\* sign, letters): an optional sign and decimal digits.
Atoi(s) ==
    IF IsDigits(s) THEN [ok |-> TRUE, val |-> Decimal(s)]
    ELSE IF IsSigned(s)
         THEN [ok |-> TRUE,
               val |-> IF s[1] = "-" THEN 0 - Decimal(Tail(s)) ELSE Decimal(Tail(s))]
         ELSE [ok |-> FALSE, val |-> 0]

\* The two bytes after the point are an exponent: 'e' or 'E' and a digit.
IsExponent(frac) == Len(frac) = 2 /\ frac[1] \in {"e", "E"} /\ frac[2] \in Digits

RECURSIVE TenTo(_)
TenTo(n) == IF n = 0 THEN 1 ELSE 10 * TenTo(n - 1)

\* The hundredths whole + "." + frac stands for when whole holds digits only:
\* frac is two decimals, or an exponent of ten.
Hundredths(whole, frac) ==
    IF IsExponent(frac) THEN 100 * Decimal(whole) * TenTo(DigitValue(frac[2]))
    ELSE 100 * Decimal(whole) + Decimal(frac)

\* strconv.ParseFloat(whole + "." + frac, 64), in hundredths: an optional
\* sign, digits, the point, then digits or an exponent.
ParseSeconds(whole, frac) ==
    IF (IsDigits(frac) \/ IsExponent(frac)) /\ IsDigits(whole)
    THEN [ok |-> TRUE, val |-> Hundredths(whole, frac)]
    ELSE IF (IsDigits(frac) \/ IsExponent(frac)) /\ IsSigned(whole)
         THEN [ok |-> TRUE,
               val |-> IF whole[1] = "-"
                       THEN 0 - Hundredths(Tail(whole), frac)
                       ELSE Hundredths(Tail(whole), frac)]
         ELSE [ok |-> FALSE, val |-> 0]

\* A parsePoint that negates the degrees alone for 'S' and 'W'.
parsePointDegreesOnly(point) ==
    IF Len(point) < 9 \/ Len(point) > 10
    THEN [ok |-> FALSE, degrees |-> 0, minutes |-> 0, seconds |-> 0]
    ELSE LET pt == IF Len(point) = 9
                   THEN <<point[1], "0">> \o SubSeq(point, 2, 9)
                   ELSE point
             dir == IF pt[1] = "S" \/ pt[1] = "W" THEN 0 - 1 ELSE 1
             degrees == Atoi(SubSeq(pt, 2, 4))
             minutes == Atoi(SubSeq(pt, 5, 6))
             seconds == ParseSeconds(SubSeq(pt, 7, 8), SubSeq(pt, 9, 10))
         IN  IF degrees.ok /\ minutes.ok /\ seconds.ok
             THEN [ok |-> TRUE, degrees |-> dir * degrees.val,
                   minutes |-> minutes.val, seconds |-> seconds.val]
             ELSE [ok |-> FALSE, degrees |-> 0, minutes |-> 0, seconds |-> 0]

\* Degrees, minutes and seconds (in hundredths) of a latitude or longitude
\* string, each negative for 'S' and 'W'.
parsePoint(point) ==
    IF Len(point) < 9 \/ Len(point) > 10
    THEN [ok |-> FALSE, degrees |-> 0, minutes |-> 0, seconds |-> 0]
    ELSE LET pt == IF Len(point) = 9
                   THEN <<point[1], "0">> \o SubSeq(point, 2, 9)
                   ELSE point
             dir == IF pt[1] = "S" \/ pt[1] = "W" THEN 0 - 1 ELSE 1
             degrees == Atoi(SubSeq(pt, 2, 4))
             minutes == Atoi(SubSeq(pt, 5, 6))
             seconds == ParseSeconds(SubSeq(pt, 7, 8), SubSeq(pt, 9, 10))
         IN  IF degrees.ok /\ minutes.ok /\ seconds.ok
             THEN [ok |-> TRUE, degrees |-> dir * degrees.val,
                   minutes |-> dir * minutes.val, seconds |-> dir * seconds.val]
             ELSE [ok |-> FALSE, degrees |-> 0, minutes |-> 0, seconds |-> 0]

\* deg + min/60 + sec/3600, in hundredths of an arc second.
LatLon(latitude, longitude) ==
    LET lat == parsePoint(latitude)
        lon == parsePoint(longitude)
    IN  IF lat.ok /\ lon.ok
        THEN [ok |-> TRUE,
              point |-> <<360000 * lat.degrees + 6000 * lat.minutes + lat.seconds,
                          360000 * lon.degrees + 6000 * lon.minutes + lon.seconds>>]
        ELSE [ok |-> FALSE, point |-> <<0, 0>>]

RECURSIVE DecimalString(_)
DecimalString(n) ==
    LET d == <<"0", "1", "2", "3", "4", "5", "6", "7", "8", "9">>[(n % 10) + 1]
    IN  IF n < 10 THEN <<d>> ELSE DecimalString(n \div 10) \o <<d>>

ZeroPad(s, w) == IF Len(s) >= w THEN s ELSE [i \in 1..(w - Len(s)) |-> "0"] \o s

\* The hundredths fmt rounds a magnitude in 1/10000 degree to: the nearest,
\* and the even one when the magnitude is a binary fraction halfway between
\* two (0.125, 0.375, 0.625, 0.875 of a degree and those plus a whole
\* number), which a float64 holds exactly.
RoundHundredths(mag) ==
    IF mag % 100 = 50 /\ mag % 625 = 0 /\ (mag \div 100) % 2 = 0
    THEN mag \div 100
    ELSE (mag + 50) \div 100

\* fmt.Sprintf("%.2f", bearing): no width and no zero padding.
SprintfP2f(bearing) ==
    LET mag == IF bearing < 0 THEN 0 - bearing ELSE bearing
        h == RoundHundredths(mag)
        body == DecimalString(h \div 100) \o <<".">> \o ZeroPad(DecimalString(h % 100), 2)
    IN  IF bearing < 0 THEN <<"-">> \o body ELSE body

\* fmt.Sprintf("%06.2f", bearing) of a bearing in 1/10000 degree.
Sprintf06p2f(bearing) ==
    LET mag == IF bearing < 0 THEN 0 - bearing ELSE bearing
        h == RoundHundredths(mag)
        body == DecimalString(h \div 100) \o <<".">> \o ZeroPad(DecimalString(h % 100), 2)
    IN  IF bearing < 0 THEN <<"-">> \o ZeroPad(body, 5) ELSE ZeroPad(body, 6)

\* s[:3] + s[4:]
EncodeBearing(bearing) ==
    LET s == Sprintf06p2f(bearing)
    IN  SubSeq(s, 1, 3) \o SubSeq(s, 5, Len(s))


(***************************************************************************)
(* Records of the input files, from the fixtures of the tests              *)
(***************************************************************************)
\* SUSAEAENRT   FERNE K20    C  RL N37300000W122300000                       E0132     NAR           FERNE                    459212002
EnrouteWaypointFERNE ==
    <<"S","U","S","A","E","A","E","N","R","T"," "," "," ","F","E","R","N","E"," ","K","2","0",
      " "," "," "," ","C"," "," ","R","L"," ","N","3","7","3","0","0","0","0","0","W","1","2",
      "2","3","0","0","0","0","0"," "," "," "," "," "," "," "," "," "," "," "," "," "," "," ",
      " "," "," "," "," "," "," "," ","E","0","1","3","2"," "," "," "," "," ","N","A","R"," ",
      " "," "," "," "," "," "," "," "," "," ","F","E","R","N","E"," "," "," "," "," "," "," ",
      " "," "," "," "," "," "," "," "," "," "," "," "," ","4","5","9","2","1","2","0","0","2">>

\* SUSAP KHWDK2CFERNE K20    W     N37352400W121592400                       E0132     NAR           FERNE                    108112002
TerminalWaypointFERNE ==
    <<"S","U","S","A","P"," ","K","H","W","D","K","2","C","F","E","R","N","E"," ","K","2","0",
      " "," "," "," ","W"," "," "," "," "," ","N","3","7","3","5","2","4","0","0","W","1","2",
      "1","5","9","2","4","0","0"," "," "," "," "," "," "," "," "," "," "," "," "," "," "," ",
      " "," "," "," "," "," "," "," ","E","0","1","3","2"," "," "," "," "," ","N","A","R"," ",
      " "," "," "," "," "," "," "," "," "," ","F","E","R","N","E"," "," "," "," "," "," "," ",
      " "," "," "," "," "," "," "," "," "," "," "," "," ","1","0","8","1","1","2","0","0","2">>

\* SUSAP KHWDK2FL28L  L      020FERNEK2PC0E  F    CF IHWDK2      1079007428800053PI  + 02500                 OAK   K2D 0 DS   108521310
ApproachProcedureLocFAF ==
    <<"S","U","S","A","P"," ","K","H","W","D","K","2","F","L","2","8","L"," "," ","L"," "," ",
      " "," "," "," ","0","2","0","F","E","R","N","E","K","2","P","C","0","E"," "," ","F"," ",
      " "," "," ","C","F"," ","I","H","W","D","K","2"," "," "," "," "," "," ","1","0","7","9",
      "0","0","7","4","2","8","8","0","0","0","5","3","P","I"," "," ","+"," ","0","2","5","0",
      "0"," "," "," "," "," "," "," "," "," "," "," "," "," "," "," "," "," ","O","A","K"," ",
      " "," ","K","2","D"," ","0"," ","D","S"," "," "," ","1","0","8","5","2","1","3","1","0">>

\* SUSAP KHWDK2FI28L  L      020SUDGEK2PC0E  F    CF IHWDK2      1079007428800053PI  + 02500                 OAK   K2D 0 DS   108521310
ApproachProcedureILSFAF ==
    <<"S","U","S","A","P"," ","K","H","W","D","K","2","F","I","2","8","L"," "," ","L"," "," ",
      " "," "," "," ","0","2","0","S","U","D","G","E","K","2","P","C","0","E"," "," ","F"," ",
      " "," "," ","C","F"," ","I","H","W","D","K","2"," "," "," "," "," "," ","1","0","7","9",
      "0","0","7","4","2","8","8","0","0","0","5","3","P","I"," "," ","+"," ","0","2","5","0",
      "0"," "," "," "," "," "," "," "," "," "," "," "," "," "," "," "," "," ","O","A","K"," ",
      " "," ","K","2","D"," ","0"," ","D","S"," "," "," ","1","0","8","5","2","1","3","1","0">>

\* SUSAP KHWDK2IIHWD0   011150RW28LN37394620W1220746752879                   0109     0500   E0150                            108901212
Localizer ==
    <<"S","U","S","A","P"," ","K","H","W","D","K","2","I","I","H","W","D","0"," "," "," ","0",
      "1","1","1","5","0","R","W","2","8","L","N","3","7","3","9","4","6","2","0","W","1","2",
      "2","0","7","4","6","7","5","2","8","7","9"," "," "," "," "," "," "," "," "," "," "," ",
      " "," "," "," "," "," "," "," ","0","1","0","9"," "," "," "," "," ","0","5","0","0"," ",
      " "," ","E","0","1","5","0"," "," "," "," "," "," "," "," "," "," "," "," "," "," "," ",
      " "," "," "," "," "," "," "," "," "," "," "," "," ","1","0","8","9","0","1","2","1","2">>

\* SUSAP KHWDK2IIHWD0   011150RW28LNBAD94620W1220746752879                   0109     0500   E0150                            108901212
LocalizerBadLatLon ==
    <<"S","U","S","A","P"," ","K","H","W","D","K","2","I","I","H","W","D","0"," "," "," ","0",
      "1","1","1","5","0","R","W","2","8","L","N","B","A","D","9","4","6","2","0","W","1","2",
      "2","0","7","4","6","7","5","2","8","7","9"," "," "," "," "," "," "," "," "," "," "," ",
      " "," "," "," "," "," "," "," ","0","1","0","9"," "," "," "," "," ","0","5","0","0"," ",
      " "," ","E","0","1","5","0"," "," "," "," "," "," "," "," "," "," "," "," "," "," "," ",
      " "," "," "," "," "," "," "," "," "," "," "," "," ","1","0","8","9","0","1","2","1","2">>

\* SUSAP KHWDK2IIHWDAXYZ011150RW28LN37394620W1220746752879                   0109     0500   E0150               RESERVED     108901212
LocalizerLDA ==
    <<"S","U","S","A","P"," ","K","H","W","D","K","2","I","I","H","W","D","A","X","Y","Z","0",
      "1","1","1","5","0","R","W","2","8","L","N","3","7","3","9","4","6","2","0","W","1","2",
      "2","0","7","4","6","7","5","2","8","7","9"," "," "," "," "," "," "," "," "," "," "," ",
      " "," "," "," "," "," "," "," ","0","1","0","9"," "," "," "," "," ","0","5","0","0"," ",
      " "," ","E","0","1","5","0"," "," "," "," "," "," "," "," "," "," "," "," "," "," "," ",
      "R","E","S","E","R","V","E","D"," "," "," "," "," ","1","0","8","9","0","1","2","1","2">>

\* SUSAP KHWDK2IIOAK0   011150RW28LN37394620W1220746752879                   0109     0500   E0150                            108901212
LocalizerOther ==
    <<"S","U","S","A","P"," ","K","H","W","D","K","2","I","I","O","A","K","0"," "," "," ","0",
      "1","1","1","5","0","R","W","2","8","L","N","3","7","3","9","4","6","2","0","W","1","2",
      "2","0","7","4","6","7","5","2","8","7","9"," "," "," "," "," "," "," "," "," "," "," ",
      " "," "," "," "," "," "," "," ","0","1","0","9"," "," "," "," "," ","0","5","0","0"," ",
      " "," ","E","0","1","5","0"," "," "," "," "," "," "," "," "," "," "," "," "," "," "," ",
      " "," "," "," "," "," "," "," "," "," "," "," "," ","1","0","8","9","0","1","2","1","2">>

\* SUSAP KOAKK2IIHWDA   011150RW28LN37394620W1220746752879                   0109     0500   E0150                            108901212
LocalizerLDAOtherAirport ==
    <<"S","U","S","A","P"," ","K","O","A","K","K","2","I","I","H","W","D","A"," "," "," ","0",
      "1","1","1","5","0","R","W","2","8","L","N","3","7","3","9","4","6","2","0","W","1","2",
      "2","0","7","4","6","7","5","2","8","7","9"," "," "," "," "," "," "," "," "," "," "," ",
      " "," "," "," "," "," "," "," ","0","1","0","9"," "," "," "," "," ","0","5","0","0"," ",
      " "," ","E","0","1","5","0"," "," "," "," "," "," "," "," "," "," "," "," "," "," "," ",
      " "," "," "," "," "," "," "," "," "," "," "," "," ","1","0","8","9","0","1","2","1","2">>

\* SCANDB       ILI   PA004110H  W N59000000W155000000                       E0140           NARILIAMNA                       004122002
NDB ==
    <<"S","C","A","N","D","B"," "," "," "," "," "," "," ","I","L","I"," "," "," ","P","A","0",
      "0","4","1","1","0","H"," "," ","W"," ","N","5","9","0","0","0","0","0","0","W","1","5",
      "5","0","0","0","0","0","0"," "," "," "," "," "," "," "," "," "," "," "," "," "," "," ",
      " "," "," "," "," "," "," "," ","E","0","1","4","0"," "," "," "," "," "," "," "," "," ",
      " "," ","N","A","R","I","L","I","A","M","N","A"," "," "," "," "," "," "," "," "," "," ",
      " "," "," "," "," "," "," "," "," "," "," "," "," ","0","0","4","1","2","2","0","0","2">>

\* SCANDB       ILI   PA004110H  W NBAD00000W155000000                       E0140           NARILIAMNA                       004122002
NDBBadLatLon ==
    <<"S","C","A","N","D","B"," "," "," "," "," "," "," ","I","L","I"," "," "," ","P","A","0",
      "0","4","1","1","0","H"," "," ","W"," ","N","B","A","D","0","0","0","0","0","W","1","5",
      "5","0","0","0","0","0","0"," "," "," "," "," "," "," "," "," "," "," "," "," "," "," ",
      " "," "," "," "," "," "," "," ","E","0","1","4","0"," "," "," "," "," "," "," "," "," ",
      " "," ","N","A","R","I","L","I","A","M","N","A"," "," "," "," "," "," "," "," "," "," ",
      " "," "," "," "," "," "," "," "," "," "," "," "," ","0","0","4","1","2","2","0","0","2">>

\* SCAND        ADK   PA011400 DUW                    ADK N51521587W176402739E0070003291     NARMOUNT MOFFETT                 002361703
SkipsNDBDME ==
    <<"S","C","A","N","D"," "," "," "," "," "," "," "," ","A","D","K"," "," "," ","P","A","0",
      "1","1","4","0","0"," ","D","U","W"," "," "," "," "," "," "," "," "," "," "," "," "," ",
      " "," "," "," "," "," "," ","A","D","K"," ","N","5","1","5","2","1","5","8","7","W","1",
      "7","6","4","0","2","7","3","9","E","0","0","7","0","0","0","3","2","9","1"," "," "," ",
      " "," ","N","A","R","M","O","U","N","T"," ","M","O","F","F","E","T","T"," "," "," "," ",
      " "," "," "," "," "," "," "," "," "," "," "," "," ","0","0","2","3","6","1","7","0","3">>

\* SUSAD        PYE   K2011370VDHW N38000000W122000000    N38044712W122520418E0170013402     NARPOINT REYES                   236192002
VOR ==
    <<"S","U","S","A","D"," "," "," "," "," "," "," "," ","P","Y","E"," "," "," ","K","2","0",
      "1","1","3","7","0","V","D","H","W"," ","N","3","8","0","0","0","0","0","0","W","1","2",
      "2","0","0","0","0","0","0"," "," "," "," ","N","3","8","0","4","4","7","1","2","W","1",
      "2","2","5","2","0","4","1","8","E","0","1","7","0","0","1","3","4","0","2"," "," "," ",
      " "," ","N","A","R","P","O","I","N","T"," ","R","E","Y","E","S"," "," "," "," "," "," ",
      " "," "," "," "," "," "," "," "," "," "," "," "," ","2","3","6","1","9","2","0","0","2">>

\* SUSAD        PYE   K2011370VDHW NBAD00000W122000000    N38044712W122520418E0170013402     NARPOINT REYES                   236192002
VORBadLatLon ==
    <<"S","U","S","A","D"," "," "," "," "," "," "," "," ","P","Y","E"," "," "," ","K","2","0",
      "1","1","3","7","0","V","D","H","W"," ","N","B","A","D","0","0","0","0","0","W","1","2",
      "2","0","0","0","0","0","0"," "," "," "," ","N","3","8","0","4","4","7","1","2","W","1",
      "2","2","5","2","0","4","1","8","E","0","1","7","0","0","1","3","4","0","2"," "," "," ",
      " "," ","N","A","R","P","O","I","N","T"," ","R","E","Y","E","S"," "," "," "," "," "," ",
      " "," "," "," "," "," "," "," "," "," "," "," "," ","2","3","6","1","9","2","0","0","2">>

\* SUSAEAENRT   SUNOL K20    C  RL N37000000W121000000                       E0132     NAR           SUNOL                    459212002
EnrouteWaypoint ==
    <<"S","U","S","A","E","A","E","N","R","T"," "," "," ","S","U","N","O","L"," ","K","2","0",
      " "," "," "," ","C"," "," ","R","L"," ","N","3","7","0","0","0","0","0","0","W","1","2",
      "1","0","0","0","0","0","0"," "," "," "," "," "," "," "," "," "," "," "," "," "," "," ",
      " "," "," "," "," "," "," "," ","E","0","1","3","2"," "," "," "," "," ","N","A","R"," ",
      " "," "," "," "," "," "," "," "," "," ","S","U","N","O","L"," "," "," "," "," "," "," ",
      " "," "," "," "," "," "," "," "," "," "," "," "," ","4","5","9","2","1","2","0","0","2">>

\* SUSAEAENRT   SUNOL K20    C  RL NBAD00000W121000000                       E0132     NAR           SUNOL                    459212002
EnrouteWaypointBadLatLon ==
    <<"S","U","S","A","E","A","E","N","R","T"," "," "," ","S","U","N","O","L"," ","K","2","0",
      " "," "," "," ","C"," "," ","R","L"," ","N","B","A","D","0","0","0","0","0","W","1","2",
      "1","0","0","0","0","0","0"," "," "," "," "," "," "," "," "," "," "," "," "," "," "," ",
      " "," "," "," "," "," "," "," ","E","0","1","3","2"," "," "," "," "," ","N","A","R"," ",
      " "," "," "," "," "," "," "," "," "," ","S","U","N","O","L"," "," "," "," "," "," "," ",
      " "," "," "," "," "," "," "," "," "," "," "," "," ","4","5","9","2","1","2","0","0","2">>

\* SUSAP KHWDK2AHWD     0     056YHN37393214W122071825E015000052         1800018000C    MNAR    HAYWARD EXECUTIVE             107981608
NewAirport ==
    <<"S","U","S","A","P"," ","K","H","W","D","K","2","A","H","W","D"," "," "," "," "," ","0",
      " "," "," "," "," ","0","5","6","Y","H","N","3","7","3","9","3","2","1","4","W","1","2",
      "2","0","7","1","8","2","5","E","0","1","5","0","0","0","0","5","2"," "," "," "," "," ",
      " "," "," "," ","1","8","0","0","0","1","8","0","0","0","C"," "," "," "," ","M","N","A",
      "R"," "," "," "," ","H","A","Y","W","A","R","D"," ","E","X","E","C","U","T","I","V","E",
      " "," "," "," "," "," "," "," "," "," "," "," "," ","1","0","7","9","8","1","6","0","8">>

\* SUSAP KHWDK2CSUDGE K20    W     N37000000W121000000                       E0132     NAR           SUDGE                    108112002
TerminalWaypoint ==
    <<"S","U","S","A","P"," ","K","H","W","D","K","2","C","S","U","D","G","E"," ","K","2","0",
      " "," "," "," ","W"," "," "," "," "," ","N","3","7","0","0","0","0","0","0","W","1","2",
      "1","0","0","0","0","0","0"," "," "," "," "," "," "," "," "," "," "," "," "," "," "," ",
      " "," "," "," "," "," "," "," ","E","0","1","3","2"," "," "," "," "," ","N","A","R"," ",
      " "," "," "," "," "," "," "," "," "," ","S","U","D","G","E"," "," "," "," "," "," "," ",
      " "," "," "," "," "," "," "," "," "," "," "," "," ","1","0","8","1","1","2","0","0","2">>

\* SUSAP KHWDK2CSUDGE K20    W     NBAD00000W121000000                       E0132     NAR           SUDGE                    108112002
TerminalWaypointBadLatLon ==
    <<"S","U","S","A","P"," ","K","H","W","D","K","2","C","S","U","D","G","E"," ","K","2","0",
      " "," "," "," ","W"," "," "," "," "," ","N","B","A","D","0","0","0","0","0","W","1","2",
      "1","0","0","0","0","0","0"," "," "," "," "," "," "," "," "," "," "," "," "," "," "," ",
      " "," "," "," "," "," "," "," ","E","0","1","3","2"," "," "," "," "," ","N","A","R"," ",
      " "," "," "," "," "," "," "," "," "," ","S","U","D","G","E"," "," "," "," "," "," "," ",
      " "," "," "," "," "," "," "," "," "," "," "," "," ","1","0","8","1","1","2","0","0","2">>

\* SUSAP KHWDK2FL28L  ASJC   010SJC  K2D 0V  A    IF                                             18000                 0 DS   108481212
ApproachProcedureLocNotFAF ==
    <<"S","U","S","A","P"," ","K","H","W","D","K","2","F","L","2","8","L"," "," ","A","S","J",
      "C"," "," "," ","0","1","0","S","J","C"," "," ","K","2","D"," ","0","V"," "," ","A"," ",
      " "," "," ","I","F"," "," "," "," "," "," "," "," "," "," "," "," "," "," "," "," "," ",
      " "," "," "," "," "," "," "," "," "," "," "," "," "," "," "," "," "," "," "," "," "," ",
      " "," "," "," "," "," ","1","8","0","0","0"," "," "," "," "," "," "," "," "," "," "," ",
      " "," "," "," "," "," ","0"," ","D","S"," "," "," ","1","0","8","4","8","1","2","1","2">>

\* SUSAP KHWDK2FR28L  L      020FERNEK2PC0E  F    CF IHWDK2      1079007428800053PI  + 02500                 OAK   K2D 0 DS   108521310
ApproachProcedureRNAVFAF ==
    <<"S","U","S","A","P"," ","K","H","W","D","K","2","F","R","2","8","L"," "," ","L"," "," ",
      " "," "," "," ","0","2","0","F","E","R","N","E","K","2","P","C","0","E"," "," ","F"," ",
      " "," "," ","C","F"," ","I","H","W","D","K","2"," "," "," "," "," "," ","1","0","7","9",
      "0","0","7","4","2","8","8","0","0","0","5","3","P","I"," "," ","+"," ","0","2","5","0",
      "0"," "," "," "," "," "," "," "," "," "," "," "," "," "," "," "," "," ","O","A","K"," ",
      " "," ","K","2","D"," ","0"," ","D","S"," "," "," ","1","0","8","5","2","1","3","1","0">>

\* SUSAH KHWDK2AHWD     0     056YHN37393214W122071825E015000052         1800018000C    MNAR    HAYWARD EXECUTIVE             107981608
Heliport ==
    <<"S","U","S","A","H"," ","K","H","W","D","K","2","A","H","W","D"," "," "," "," "," ","0",
      " "," "," "," "," ","0","5","6","Y","H","N","3","7","3","9","3","2","1","4","W","1","2",
      "2","0","7","1","8","2","5","E","0","1","5","0","0","0","0","5","2"," "," "," "," "," ",
      " "," "," "," ","1","8","0","0","0","1","8","0","0","0","C"," "," "," "," ","M","N","A",
      "R"," "," "," "," ","H","A","Y","W","A","R","D"," ","E","X","E","C","U","T","I","V","E",
      " "," "," "," "," "," "," "," "," "," "," "," "," ","1","0","7","9","8","1","6","0","8">>

\* Lines shorter than a record: an empty line, the first five columns of a
\* VHF navaid, an NDB cut after column 93, a localizer cut after column 60.
EmptyLine == <<>>

ShortNavaid == SubSeq(VOR, 1, 5)

TruncatedNDB == SubSeq(NDB, 1, 93)

TruncatedLocalizer == SubSeq(Localizer, 1, 60)

\* The line s with the columns from col on replaced by text.
Put(s, col, text) ==
    [i \in 1..Len(s) |->
         IF i >= col /\ i < col + Len(text) THEN text[i - col + 1] ELSE s[i]]

\* Further legs of approaches: the final approach fix of L28L given again
\* with the fix SUDGE and the navaid IOAK, a leg whose waypoint description
\* code is the two characters "EF", and the final approach fix of an
\* approach L28L of KOAK.
ApproachProcedureLocFAFSudge ==
    Put(Put(ApproachProcedureLocFAF, 30, <<"S", "U", "D", "G", "E">>),
        51, <<"I", "O", "A", "K">>)

ApproachProcedureShortCode ==
    Put(ApproachProcedureLocFAF, 40, <<"E", "F", " ", " ">>)

ApproachProcedureOtherAirport ==
    Put(ApproachProcedureLocFAF, 7, <<"K", "O", "A", "K">>)

\* The terminal waypoint FERNE of KOAK, where the enroute waypoint FERNE is.
TerminalWaypointOtherAirport ==
    Put(Put(TerminalWaypointFERNE, 7, <<"K", "O", "A", "K">>),
        33, SubSeq(EnrouteWaypointFERNE, 33, 51))

\* A VHF navaid with a VOR latitude and no VOR longitude, and one with a
\* VOR longitude and no VOR latitude.
VORNoLongitude == Put(VOR, 42, Blank(10))

VORNoLatitude == Put(VOR, 33, Blank(9))

\* The waypoint FERNE of KHWD again, forty minutes of latitude south of the
\* localizer and a hundredth of a second of longitude east of it.
TerminalWaypointDueSouth ==
    Put(TerminalWaypointFERNE, 33,
        <<"N","3","7","0","0","0","0","0","0",
          "W","1","2","2","0","7","4","6","7","4">>)

\* The identifier PYE of the VHF navaid given to an NDB and to an enroute
\* waypoint, and made the final approach fix of approach L28L of KHWD.
NDBPYE == Put(NDB, 14, <<"P", "Y", "E", " ">>)

EnrouteWaypointPYE == Put(EnrouteWaypoint, 14, <<"P", "Y", "E", " ", " ">>)

ApproachProcedurePYE == Put(ApproachProcedureLocFAF, 30, <<"P", "Y", "E", " ", " ">>)

\* The initial azimuth, in 1/10000 degree, from each position of a record above
\* to each other: <<lat, lon, lat, lon, azimuth>>.
BearingTable == {
    <<13320000, -43966674, 13320000, -43966674, 0>>,
    <<13320000, -43966674, 13320000, -43560000, 896601>>,
    <<13320000, -43966674, 13500000, -44100000, -304116>>,
    <<13320000, -43966674, 13532400, -43916400, 106215>>,
    <<13320000, -43966674, 13557214, -43963825, 5448>>,
    <<13320000, -43966674, 13558620, -43966675, -2>>,
    <<13320000, -43966674, 13680000, -43920000, 58333>>,
    <<13320000, -43966674, 21240000, -55800000, -333815>>,
    <<13320000, -43560000, 13320000, -43966674, -896601>>,
    <<13320000, -43560000, 13320000, -43560000, 0>>,
    <<13320000, -43560000, 13500000, -44100000, -668253>>,
    <<13320000, -43560000, 13532400, -43916400, -528626>>,
    <<13320000, -43560000, 13557214, -43963825, -532061>>,
    <<13320000, -43560000, 13558620, -43966675, -532338>>,
    <<13320000, -43560000, 13680000, -43920000, -381235>>,
    <<13320000, -43560000, 21240000, -55800000, -339620>>,
    <<13500000, -44100000, 13320000, -43966674, 1493642>>,
    <<13500000, -44100000, 13320000, -43560000, 1122667>>,
    <<13500000, -44100000, 13500000, -44100000, 0>>,
    <<13500000, -44100000, 13532400, -43916400, 772969>>,
    <<13500000, -44100000, 13557214, -43963825, 619543>>,
    <<13500000, -44100000, 13558620, -43966675, 608653>>,
    <<13500000, -44100000, 13680000, -43920000, 381803>>,
    <<13500000, -44100000, 21240000, -55800000, -336577>>,
    <<13532400, -43916400, 13320000, -43966674, -1692939>>,
    <<13532400, -43916400, 13320000, -43560000, 1265376>>,
    <<13532400, -43916400, 13500000, -44100000, -1023923>>,
    <<13532400, -43916400, 13532400, -43916400, 0>>,
    <<13532400, -43916400, 13557214, -43963825, -565105>>,
    <<13532400, -43916400, 13558620, -43966675, -565928>>,
    <<13532400, -43916400, 13680000, -43920000, -11011>>,
    <<13532400, -43916400, 21240000, -55800000, -340147>>,
    <<13557214, -43963825, 13320000, -43966674, -1794504>>,
    <<13557214, -43963825, 13320000, -43560000, 1261136>>,
    <<13557214, -43963825, 13500000, -44100000, -1178150>>,
    <<13557214, -43963825, 13532400, -43916400, 1234091>>,
    <<13557214, -43963825, 13557214, -43963825, 0>>,
    <<13557214, -43963825, 13558620, -43966675, -580673>>,
    <<13557214, -43963825, 13680000, -43920000, 157064>>,
    <<13557214, -43963825, 21240000, -55800000, -340122>>,
    <<13558620, -43966675, 13320000, -43966674, 1799998>>,
    <<13558620, -43966675, 13320000, -43560000, 1260812>>,
    <<13558620, -43966675, 13500000, -44100000, -1189088>>,
    <<13558620, -43966675, 13532400, -43916400, 1233220>>,
    <<13558620, -43966675, 13557214, -43963825, 1219278>>,
    <<13558620, -43966675, 13558620, -43966675, 0>>,
    <<13558620, -43966675, 13680000, -43920000, 168545>>,
    <<13558620, -43966675, 21240000, -55800000, -340118>>,
    <<13680000, -43920000, 13320000, -43966674, -1740878>>,
    <<13680000, -43920000, 13320000, -43560000, 1412677>>,
    <<13680000, -43920000, 13500000, -44100000, -1415136>>,
    <<13680000, -43920000, 13532400, -43916400, 1788928>>,
    <<13680000, -43920000, 13557214, -43963825, -1642189>>,
    <<13680000, -43920000, 13558620, -43966675, -1630659>>,
    <<13680000, -43920000, 13680000, -43920000, 0>>,
    <<13680000, -43920000, 21240000, -55800000, -344098>>,
    <<21240000, -55800000, 13320000, -43966674, 1214413>>,
    <<21240000, -55800000, 13320000, -43560000, 1199742>>,
    <<21240000, -55800000, 13500000, -44100000, 1213810>>,
    <<21240000, -55800000, 13532400, -43916400, 1206097>>,
    <<21240000, -55800000, 13557214, -43963825, 1207054>>,
    <<21240000, -55800000, 13558620, -43966675, 1207115>>,
    <<21240000, -55800000, 13680000, -43920000, 1201608>>,
    <<21240000, -55800000, 21240000, -55800000, 0>>}

\* geo.Point.BearingTo: atan2(sin(dLon) cos(lat2), cos(lat1) sin(lat2) -
\* sin(lat1) cos(lat2) cos(dLon)) in degrees, for the positions above.
BearingTo(from, to) ==
    LET e == CHOOSE e \in BearingTable :
                 /\ e[1] = from[1] /\ e[2] = from[2]
                 /\ e[3] = to[1] /\ e[4] = to[2]
    IN  e[5]

(***************************************************************************)
(* enhance: the processor                                                  *)
(***************************************************************************)
\* m[k] = v in a Go map.
\* A map assignment that keeps the value of a key the map already holds.
MapPutKeepFirst(m, k, v) ==
    [x \in (DOMAIN m) \cup {k} |-> IF x \in DOMAIN m THEN m[x] ELSE v]

MapPut(m, k, v) == [x \in (DOMAIN m) \cup {k} |-> IF x = k THEN v ELSE m[x]]

newProcessor ==
    [Airports |-> <<>>, OtherWaypoints |-> <<>>, DuplicateLocalizers |-> <<>>]

newAirportData == [Waypoints |-> <<>>, Approaches |-> <<>>]

\* An ApproachForLoc that does not compare the localizer: any approach of
\* the airport is returned.
ApproachForLocAnyLocalizer(a, LocalizerID) ==
    IF DOMAIN a.Approaches = {} THEN {<<>>}
    ELSE {<<a.Approaches[id]>> : id \in DOMAIN a.Approaches}

\* The approaches ApproachForLoc may return, <<>> standing for nil: the first
\* match of a range over a Go map, whose iteration order is unspecified.
ApproachForLoc(a, LocalizerID) ==
    LET found == {id \in DOMAIN a.Approaches :
                      a.Approaches[id].LocalizerID = LocalizerID}
    IN  IF found = {} THEN {<<>>} ELSE {<<a.Approaches[id]>> : id \in found}

\* A first scan that gives the airport of an airport record an entry, as
\* the main pass does.
preProcessIndexesAirport(pr, recordBytes) ==
    LET r == UnmarshalRecord(recordBytes)
        a == UnmarshalAirportEnrouteRecord(recordBytes)
        loc == UnmarshalAirportLocGSPrimaryRecord(recordBytes)
        p1 == IF r.SectionCode = SectionCodeAirport
              THEN [pr EXCEPT !.Airports = MapPut(@, a.AirportID, newAirportData)]
              ELSE pr
    IN  IF r.SectionCode = SectionCodeAirport /\ a.SubsectionCode = SubsectionCodeLocGS
        THEN [p1 EXCEPT !.DuplicateLocalizers =
                  MapPut(@, loc.LocalizerID, loc.LocalizerID \in DOMAIN @)]
        ELSE p1

\* A first scan that records the localizers and never marks one as seen
\* more than once.
preProcessNeverFlips(pr, recordBytes) ==
    LET r == UnmarshalRecord(recordBytes)
        a == UnmarshalAirportEnrouteRecord(recordBytes)
        loc == UnmarshalAirportLocGSPrimaryRecord(recordBytes)
    IN  IF r.SectionCode = SectionCodeAirport /\ a.SubsectionCode = SubsectionCodeLocGS
        THEN [pr EXCEPT !.DuplicateLocalizers = MapPut(@, loc.LocalizerID, FALSE)]
        ELSE pr

\* The first scan's step on one line.
preProcess(pr, recordBytes) ==
    LET r == UnmarshalRecord(recordBytes)
        a == UnmarshalAirportEnrouteRecord(recordBytes)
        loc == UnmarshalAirportLocGSPrimaryRecord(recordBytes)
    IN  IF r.SectionCode = SectionCodeAirport /\ a.SubsectionCode = SubsectionCodeLocGS
        THEN [pr EXCEPT !.DuplicateLocalizers =
                  MapPut(@, loc.LocalizerID, loc.LocalizerID \in DOMAIN @)]
        ELSE pr

\* The closure writeRecord: each record marshalled and followed by a newline.
RECURSIVE writeRecord(_)
writeRecord(records) ==
    IF records = <<>> THEN <<>>
    ELSE Head(records) \o <<"\n">> \o writeRecord(Tail(records))

\* A lookup of the final approach fix that asks OtherWaypoints first.
FapWaypointOtherFirst(pr, a, apch) ==
    IF apch.FinalApproachFix \in DOMAIN pr.OtherWaypoints
    THEN <<pr.OtherWaypoints[apch.FinalApproachFix]>>
    ELSE IF apch.FinalApproachFix \in DOMAIN a.Waypoints
         THEN <<a.Waypoints[apch.FinalApproachFix]>>
         ELSE <<>>

\* The final approach fix of an approach: the airport's own waypoint, else
\* the waypoint of that name among the others; <<>> when there is none.
FapWaypoint(pr, a, apch) ==
    IF apch.FinalApproachFix \in DOMAIN a.Waypoints
    THEN <<a.Waypoints[apch.FinalApproachFix]>>
    ELSE IF apch.FinalApproachFix \in DOMAIN pr.OtherWaypoints
         THEN <<pr.OtherWaypoints[apch.FinalApproachFix]>>
         ELSE <<>>

\* The bearing taken the other way round, from the localizer to the fix.
BearingFromLocalizer(fapWaypoint, locPosition) ==
    LET bearing == BearingTo(locPosition, fapWaypoint)
    IN  IF bearing < 0 THEN 3600000 + bearing ELSE bearing

\* The bearing from the final approach fix to the localizer, made positive.
Bearing(fapWaypoint, locPosition) ==
    LET bearing == BearingTo(fapWaypoint, locPosition)
    IN  IF bearing < 0 THEN 3600000 + bearing ELSE bearing

\* A continuation record built without the category of the localizer.
ContRecordNoCategory(loc, bearing) ==
    [AirportEnrouteRecord     |-> loc.AirportEnrouteRecord,
     LocalizerID              |-> loc.LocalizerID,
     ILSCategory              |-> <<>>,
     ContinuationRecordNumber |-> <<"2">>,
     ApplicationType          |-> ContinuationRecordSimulation,
     FacilityCharacteristics  |-> <<>>,
     LocalizerTrueBearing     |-> EncodeBearing(bearing),
     LocalizerBearingSource   |-> LocalizerBearingSourceNotGovt,
     GlideSlopeBeamWidth      |-> <<>>,
     ApproachRouteIdent1      |-> <<>>,
     ApproachRouteIdent2      |-> <<>>,
     ApproachRouteIdent3      |-> <<>>,
     ApproachRouteIdent4      |-> <<>>,
     ApproachRouteIdent5      |-> <<>>,
     Data                     |-> <<>>]

\* The continuation record processLocalizer builds from loc, whose
\* ContinuationRecordNumber it has set, and the bearing.
ContRecord(loc, bearing) ==
    [AirportEnrouteRecord     |-> loc.AirportEnrouteRecord,
     LocalizerID              |-> loc.LocalizerID,
     ILSCategory              |-> loc.ILSCategory,
     ContinuationRecordNumber |-> <<"2">>,
     ApplicationType          |-> ContinuationRecordSimulation,
     FacilityCharacteristics  |-> <<>>,
     LocalizerTrueBearing     |-> EncodeBearing(bearing),
     LocalizerBearingSource   |-> LocalizerBearingSourceNotGovt,
     GlideSlopeBeamWidth      |-> <<>>,
     ApproachRouteIdent1      |-> <<>>,
     ApproachRouteIdent2      |-> <<>>,
     ApproachRouteIdent3      |-> <<>>,
     ApproachRouteIdent4      |-> <<>>,
     ApproachRouteIdent5      |-> <<>>,
     Data                     |-> <<>>]

\* What processLocalizer returns and leaves in loc: err is "" for nil,
\* contRecord, apch, fapWaypoint, bearing hold at most one element.
LocResult(err, loc, contRecord, apch, fapWaypoint, bearing) ==
    [err |-> err, loc |-> loc, contRecord |-> contRecord, apch |-> apch,
     fapWaypoint |-> fapWaypoint, bearing |-> bearing]

\* processLocalizer once ApproachForLoc has returned found.
processLocalizerFound(pr, loc, a, found) ==
    IF found = <<>>
    THEN LocResult("could not find corresponding approach for localizer",
                   loc, <<>>, <<>>, <<>>, <<>>)
    ELSE LET apch == found[1]
             fapWaypoint == FapWaypoint(pr, a, apch)
             ll == LatLon(loc.LocalizerLatitude, loc.LocalizerLongitude)
         IN  IF fapWaypoint = <<>>
             THEN LocResult("could not find corresponding waypoint for final approach fix",
                            loc, <<>>, found, <<>>, <<>>)
             ELSE IF ~ll.ok
             THEN LocResult("could not calculate latitude/longitude for localizer",
                            loc, <<>>, found, fapWaypoint, <<>>)
             ELSE LET bearing == Bearing(fapWaypoint[1], ll.point)
                      loc1 == [loc EXCEPT !.ContinuationRecordNumber = <<"1">>]
                  IN  LocResult("", loc1, <<ContRecord(loc1, bearing)>>, found,
                                fapWaypoint, <<bearing>>)

\* A processLocalizer that looks the airport up under the identifier of the
\* localizer.
processLocalizerByLocalizerID(pr, loc) ==
    IF loc.LocalizerID \notin DOMAIN pr.Airports
    THEN {LocResult("found localizer without corresponding airport",
                    loc, <<>>, <<>>, <<>>, <<>>)}
    ELSE LET a == pr.Airports[loc.LocalizerID]
         IN  {processLocalizerFound(pr, loc, a, found) :
                  found \in ApproachForLoc(a, loc.LocalizerID)}

\* The results processLocalizer can have.
processLocalizer(pr, loc) ==
    IF loc.AirportEnrouteRecord.AirportID \notin DOMAIN pr.Airports
    THEN {LocResult("found localizer without corresponding airport",
                    loc, <<>>, <<>>, <<>>, <<>>)}
    ELSE LET a == pr.Airports[loc.AirportEnrouteRecord.AirportID]
         IN  {processLocalizerFound(pr, loc, a, found) :
                  found \in ApproachForLoc(a, loc.LocalizerID)}

\* What processRecord returns (processed, err, "" for nil) and the processor
\* it leaves; skipped, locErr, apch, fapWaypoint and bearing tell what its
\* localizer branch did.
Returned(pr, processed, err) ==
    [p |-> pr, processed |-> processed, err |-> err, skipped |-> FALSE,
     locErr |-> "", apch |-> <<>>, fapWaypoint |-> <<>>, bearing |-> <<>>]

\* A test that drops every localizer the pre-pass saw more than once,
\* whatever its category.
IsDuplicateAnyCategory(pr, loc) ==
    /\ loc.LocalizerID \in DOMAIN pr.DuplicateLocalizers
    /\ pr.DuplicateLocalizers[loc.LocalizerID]

\* A test that drops every LDA facility, seen more than once or not.
IsLDA(pr, loc) ==
    loc.ILSCategory = <<"A">> \/ loc.ILSCategory = <<"L">>

\* Whether the localizer is one the pre-pass saw more than once and an LDA
\* facility, which processRecord drops.
IsDuplicateLDA(pr, loc) ==
    /\ loc.LocalizerID \in DOMAIN pr.DuplicateLocalizers
    /\ pr.DuplicateLocalizers[loc.LocalizerID]
    /\ (loc.ILSCategory = <<"A">> \/ loc.ILSCategory = <<"L">>)

\* A processRecord that returns the error of processLocalizer, as it does
\* the error of a waypoint.
skipLocalizerFatal(pr, r, res) ==
    [Returned(pr, <<>>, res.err) EXCEPT
         !.locErr = res.err, !.apch = res.apch, !.fapWaypoint = res.fapWaypoint]

\* A processRecord that logs the error of processLocalizer and writes
\* nothing for the record.
skipLocalizerSilent(pr, r, res) ==
    [Returned(pr, <<>>, "") EXCEPT
         !.locErr = res.err, !.apch = res.apch, !.fapWaypoint = res.fapWaypoint]

\* A processRecord that, when processLocalizer returned an error, also marks
\* the localizer as duplicated.
skipLocalizerMarks(pr, r, res) ==
    [Returned([pr EXCEPT !.DuplicateLocalizers =
                   MapPut(@, res.loc.LocalizerID, TRUE)],
              writeRecord(<<MarshalRecord(r)>>), "") EXCEPT
         !.locErr = res.err, !.apch = res.apch, !.fapWaypoint = res.fapWaypoint]

\* processLocalizer returned an error: it is logged and the record r, as
\* first decoded, is written.
skipLocalizer(pr, r, res) ==
    [Returned(pr, writeRecord(<<MarshalRecord(r)>>), "") EXCEPT
         !.locErr = res.err, !.apch = res.apch, !.fapWaypoint = res.fapWaypoint]

\* A processRecord that stores the waypoint processLocalizer found under the
\* final approach fix in the map of the waypoints outside airports.
writeLocalizerCachesFix(pr, res) ==
    LET contRecord == [res.contRecord[1] EXCEPT !.Data = res.loc.Data]
        p1 == [pr EXCEPT !.OtherWaypoints =
                   MapPut(@, res.apch[1].FinalApproachFix, res.fapWaypoint[1])]
    IN  [Returned(p1,
                  writeRecord(<<MarshalAirportLocGSPrimaryRecord(res.loc),
                                MarshalAirportLocGSSimContinuationRecord(contRecord)>>),
                  "") EXCEPT
             !.apch = res.apch, !.fapWaypoint = res.fapWaypoint,
             !.bearing = res.bearing]

\* A processRecord that writes the continuation record before the localizer.
writeLocalizerContinuationFirst(pr, res) ==
    LET contRecord == [res.contRecord[1] EXCEPT !.Data = res.loc.Data]
    IN  [Returned(pr,
                  writeRecord(<<MarshalAirportLocGSSimContinuationRecord(contRecord),
                                MarshalAirportLocGSPrimaryRecord(res.loc)>>),
                  "") EXCEPT
             !.apch = res.apch, !.fapWaypoint = res.fapWaypoint,
             !.bearing = res.bearing]

\* processLocalizer returned a continuation record: it is given the Data of
\* the localizer, and both are written.
writeLocalizer(pr, res) ==
    LET contRecord == [res.contRecord[1] EXCEPT !.Data = res.loc.Data]
    IN  [Returned(pr,
                  writeRecord(<<MarshalAirportLocGSPrimaryRecord(res.loc),
                                MarshalAirportLocGSSimContinuationRecord(contRecord)>>),
                  "") EXCEPT
             !.apch = res.apch, !.fapWaypoint = res.fapWaypoint,
             !.bearing = res.bearing]

\* The localizer branch of processRecord.
processLocGS(pr, r, recordBytes) ==
    LET loc == UnmarshalAirportLocGSPrimaryRecord(recordBytes)
    IN  IF IsDuplicateLDA(pr, loc)
        THEN {[Returned(pr, <<>>, "") EXCEPT !.skipped = TRUE]}
        ELSE {IF res.err # "" THEN skipLocalizer(pr, r, res) ELSE writeLocalizer(pr, res) :
                  res \in processLocalizer(pr, loc)}

\* A processRecord that gives the airport of every record a new entry.
ensureAirportReset(pr, AirportID) ==
    [pr EXCEPT !.Airports = MapPut(@, AirportID, newAirportData)]

\* The processor after processRecord made sure the airport has an entry.
ensureAirport(pr, AirportID) ==
    IF AirportID \in DOMAIN pr.Airports THEN pr
    ELSE [pr EXCEPT !.Airports = MapPut(@, AirportID, newAirportData)]

\* A processRecord that stores a terminal waypoint in the map of the
\* waypoints outside airports as well.
storeTerminalWaypointGlobally(pr, wpt, point) ==
    [pr EXCEPT !.Airports[wpt.AirportEnrouteRecord.AirportID].Waypoints =
                   MapPut(@, wpt.WaypointID, point),
               !.OtherWaypoints = MapPut(@, wpt.WaypointID, point)]

\* The processor after processRecord stored the position of a terminal
\* waypoint.
storeTerminalWaypoint(pr, wpt, point) ==
    [pr EXCEPT !.Airports[wpt.AirportEnrouteRecord.AirportID].Waypoints =
                   MapPut(@, wpt.WaypointID, point)]

\* A processRecord that keeps the approach a procedure already has.
upsertApproachKeepFirst(pr, apch) ==
    LET id == apch.AirportEnrouteRecord.AirportID
    IN  IF apch.ProcedureID \in DOMAIN pr.Airports[id].Approaches THEN pr
        ELSE [pr EXCEPT !.Airports[id].Approaches =
                  MapPut(@, apch.ProcedureID,
                         [FinalApproachFix |-> apch.FixID,
                          LocalizerID |-> apch.RecommendedNavaid])]

\* The processor after processRecord stored the final approach fix and the
\* localizer of an approach, in a new entry or in the one the procedure has.
upsertApproach(pr, apch) ==
    [pr EXCEPT !.Airports[apch.AirportEnrouteRecord.AirportID].Approaches =
         MapPut(@, apch.ProcedureID,
                [FinalApproachFix |-> apch.FixID,
                 LocalizerID |-> apch.RecommendedNavaid])]

\* The airport branch of processRecord.
processAirport(pr, r, recordBytes) ==
    LET a == UnmarshalAirportEnrouteRecord(recordBytes)
        p1 == ensureAirport(pr, a.AirportID)
    IN  IF a.SubsectionCode = SubsectionCodeTerminalWaypoint
        THEN LET wpt == UnmarshalWaypointPrimaryRecord(recordBytes)
                 ll == LatLon(wpt.WaypointLatitude, wpt.WaypointLongitude)
             IN  IF ~ll.ok
                 THEN {Returned(p1, <<>>, "problem converting waypoint latitude/longitude")}
                 ELSE {Returned(storeTerminalWaypoint(p1, wpt, ll.point),
                                writeRecord(<<MarshalRecord(r)>>), "")}
        ELSE IF a.SubsectionCode = SubsectionCodeApproachProcedure
        THEN LET apch == UnmarshalAirportProcedurePrimaryRecord(recordBytes)
             IN  IF IsLocalizerFrontCourseApproach(apch) /\ IsFinalApproachFix(apch)
                 THEN {Returned(upsertApproach(p1, apch),
                                writeRecord(<<MarshalRecord(r)>>), "")}
                 ELSE {Returned(p1, writeRecord(<<MarshalRecord(r)>>), "")}
        ELSE IF a.SubsectionCode = SubsectionCodeLocGS
        THEN processLocGS(p1, r, recordBytes)
        ELSE {Returned(p1, writeRecord(<<MarshalRecord(r)>>), "")}

\* A processRecord that skips a VHF navaid only when both its latitude and
\* its longitude are empty.
HasNoPositionAtAll(n) == n.VORLatitude = <<>> /\ n.VORLongitude = <<>>

\* An NDB/DME or a DME with no corresponding VOR, which processRecord does
\* not store.
HasNoPosition(n) == n.VORLatitude = <<>> \/ n.VORLongitude = <<>>

\* The results processRecord can have on one line.  Decoding a line
\* shorter than a field gives the field what the line has of it; decoding
\* an empty line is the only decoding error (io.EOF).
processRecord(pr, recordBytes) ==
    LET r == UnmarshalRecord(recordBytes)
    IN  IF recordBytes = <<>>
        THEN {Returned(pr, <<>>, "problem unmarshalling data")}
        ELSE IF r.SectionCode = SectionCodeNavaid
        THEN IF r.SubsectionCode = SubsectionCodeNavaidNDB
             THEN LET n == UnmarshalNDBNavaidRecord(recordBytes)
                      ll == LatLon(n.NDBLatitude, n.NDBLongitude)
                  IN  IF ~ll.ok
                      THEN {Returned(pr, <<>>, "problem converting NDB latitude/longitude")}
                      ELSE {Returned([pr EXCEPT !.OtherWaypoints =
                                          MapPut(@, n.NDBID, ll.point)],
                                     writeRecord(<<MarshalRecord(r)>>), "")}
             ELSE IF r.SubsectionCode = SubsectionCodeNavaidVHF
             THEN LET n == UnmarshalVHFNavaidRecord(recordBytes)
                      ll == LatLon(n.VORLatitude, n.VORLongitude)
                  IN  IF HasNoPosition(n)
                      THEN {Returned(pr, writeRecord(<<MarshalRecord(r)>>), "")}
                      ELSE IF ~ll.ok
                      THEN {Returned(pr, <<>>, "problem converting VOR latitude/longitude")}
                      ELSE {Returned([pr EXCEPT !.OtherWaypoints =
                                          MapPut(@, n.VORID, ll.point)],
                                     writeRecord(<<MarshalRecord(r)>>), "")}
             ELSE {Returned(pr, writeRecord(<<MarshalRecord(r)>>), "")}
        ELSE IF r.SectionCode = SectionCodeEnroute
        THEN IF r.SubsectionCode = SubsectionCodeEnrouteWaypoint
             THEN LET wpt == UnmarshalWaypointPrimaryRecord(recordBytes)
                      ll == LatLon(wpt.WaypointLatitude, wpt.WaypointLongitude)
                  IN  IF ~ll.ok
                      THEN {Returned(pr, <<>>, "problem converting waypoint latitude/longitude")}
                      ELSE {Returned([pr EXCEPT !.OtherWaypoints =
                                          MapPut(@, wpt.WaypointID, ll.point)],
                                     writeRecord(<<MarshalRecord(r)>>), "")}
             ELSE {Returned(pr, writeRecord(<<MarshalRecord(r)>>), "")}
        ELSE IF r.SectionCode = SectionCodeAirport
        THEN processAirport(pr, r, recordBytes)
        ELSE {Returned(pr, writeRecord(<<MarshalRecord(r)>>), "")}

(***************************************************************************)
(* Input records                                                           *)
(***************************************************************************)
\* The records of the correlation specification: the waypoint FERNE as an
\* enroute waypoint and as a terminal waypoint of KHWD, two approaches to
\* the localizer IHWD, records of that localizer (one of them of category
\* 'A', with bytes in the columns no field names), and a record of another.
Records ==
    {EnrouteWaypointFERNE, TerminalWaypointFERNE, ApproachProcedureLocFAF,
     ApproachProcedureILSFAF, Localizer, LocalizerBadLatLon, LocalizerLDA,
     LocalizerOther}

\* The records of the record-kind specification: one of every kind
\* processRecord tells apart, with and without a malformed position.
KindRecords ==
    {NDB, NDBBadLatLon, SkipsNDBDME, VOR, VORBadLatLon, EnrouteWaypoint,
     EnrouteWaypointBadLatLon, NewAirport, TerminalWaypoint,
     TerminalWaypointBadLatLon, ApproachProcedureLocNotFAF,
     ApproachProcedureLocFAF, ApproachProcedureRNAVFAF, Localizer, Heliport}

\* The records of the duplicate-localizer specifications: the localizer
\* IHWD at KHWD with category '0' and 'A' and at KOAK with category 'A',
\* the fix and the approach of KHWD, and a waypoint processRecord rejects.
DupRecords ==
    {TerminalWaypointFERNE, TerminalWaypointBadLatLon, ApproachProcedureLocFAF,
     Localizer, LocalizerLDA, LocalizerLDAOtherAirport}

\* The records of the bearing specification: a final approach fix south of
\* the localizer and one east of it, the approach and the localizer.
BearingRecords ==
    {TerminalWaypointDueSouth, TerminalWaypointFERNE, ApproachProcedureLocFAF,
     Localizer}

\* The records of the global-waypoint specification: an NDB, a VHF navaid
\* with and without a position and an enroute waypoint of one identifier,
\* an approach whose final approach fix is that identifier, and its
\* localizer.
GlobalRecords ==
    {NDBPYE, VOR, VORNoLongitude, EnrouteWaypointPYE, ApproachProcedurePYE,
     Localizer}

\* The records read and written with failures.
IORecords == {TerminalWaypointFERNE, ApproachProcedureLocFAF, Localizer}

\* The lines of the short-line specification.
ShortRecords == {EmptyLine, ShortNavaid, TruncatedNDB, TruncatedLocalizer, NDB}

\* The records of the index specification: records that store a position
\* inside and outside an airport, VHF navaids without one, an airport, the
\* final approach fix of an approach, and localizers.
IndexRecords ==
    {EnrouteWaypointFERNE, TerminalWaypointFERNE, TerminalWaypointOtherAirport,
     NDB, VOR, SkipsNDBDME, VORNoLongitude, VORNoLatitude,
     ApproachProcedureLocFAF, NewAirport, Localizer, LocalizerLDA}

\* The records of the approach specification: legs of approaches that are
\* stored, stored again and not stored, at two airports, with the fix and
\* the localizer of one of them.
ApproachRecords ==
    {TerminalWaypointFERNE, ApproachProcedureLocFAF,
     ApproachProcedureLocFAFSudge, ApproachProcedureShortCode,
     ApproachProcedureLocNotFAF, ApproachProcedureRNAVFAF,
     ApproachProcedureOtherAirport, Localizer}

(***************************************************************************)
(* enhance.Process                                                         *)
(***************************************************************************)
\* The zero value of processor.RemoveDuplicateLocalizers, which newProcessor
\* leaves when no option sets it.
DefaultRemoveDuplicateLocalizers == FALSE

Faults == {"none", "preread", "seek", "read", "write"}

NoCall ==
    [recordBytes |-> <<>>, pre |-> newProcessor, processed |-> <<>>, err |-> "",
     skipped |-> FALSE, locErr |-> "", apch |-> <<>>, fapWaypoint |-> <<>>,
     bearing |-> <<>>, written |-> 0, writeErr |-> FALSE]

\* Process called with RemoveDuplicateLocalizers(opt) on an input and an
\* output that do not fail.
Init ==
    /\ opt \in BOOLEAN
    /\ pc = IF opt THEN "prepass" ELSE "seek"
    /\ file = <<>>
    /\ pos = 0
    /\ p = newProcessor
    /\ out = <<>>
    /\ last = NoCall
    /\ fault = "none"
    /\ open = {}

\* Process called as main calls it, without options.
InitMain ==
    /\ opt = DefaultRemoveDuplicateLocalizers
    /\ pc = IF opt THEN "prepass" ELSE "seek"
    /\ file = <<>>
    /\ pos = 0
    /\ p = newProcessor
    /\ out = <<>>
    /\ last = NoCall
    /\ fault = "none"
    /\ open = {}

\* Process called on an input or an output one of whose operations fails.
InitIO ==
    /\ opt \in BOOLEAN
    /\ pc = IF opt THEN "prepass" ELSE "seek"
    /\ file = <<>>
    /\ pos = 0
    /\ p = newProcessor
    /\ out = <<>>
    /\ last = NoCall
    /\ fault \in Faults
    /\ open = {}

\* The lines the first scan of a file of at most max lines can read next.
Unread(lines, max) == IF Len(file) < max THEN lines ELSE {}

\* A main pass that, after a pre-pass, reads the file from its end.
NextLinesBackwards(lines, max) ==
    IF opt THEN (IF pos < Len(file) THEN {file[Len(file) - pos]} ELSE {})
    ELSE Unread(lines, max)

\* The lines the main pass can read next: after a pre-pass the file is read
\* again from its start, otherwise this is its first scan.
NextLines(lines, max) ==
    IF opt THEN (IF pos < Len(file) THEN {file[pos + 1]} ELSE {})
    ELSE Unread(lines, max)

\* One iteration of the pre-pass loop; the error of preProcess is dropped.
PreProcess(line) ==
    /\ pc = "prepass"
    /\ file' = Append(file, line)
    /\ p' = preProcess(p, line)
    /\ UNCHANGED <<opt, pc, pos, out, last, fault, open>>

\* The pre-pass scanner stops: at the end of the input, or at a read error,
\* which Process returns.
EndPrePass ==
    /\ pc = "prepass"
    /\ pc' = IF fault = "preread" THEN "failed" ELSE "seek"
    /\ UNCHANGED <<opt, file, pos, p, out, last, fault, open>>

\* in.Seek(0, io.SeekStart), whose error Process returns.
Seek ==
    /\ pc = "seek"
    /\ pc' = IF fault = "seek" THEN "failed" ELSE "main"
    /\ UNCHANGED <<opt, file, pos, p, out, last, fault, open>>

\* What out.Write(processed) can return: all bytes and nil, or, on a failing
\* output, fewer bytes and an error.
Write(processed) ==
    {[n |-> Len(processed), err |-> FALSE]}
        \cup (IF fault = "write"
              THEN {[n |-> k, err |-> TRUE] : k \in {0, Len(processed) \div 2}}
              ELSE {})

\* An output that takes what is written in front of what it holds.
WrittenInFront(output, processed, n) == SubSeq(processed, 1, n) \o output

\* The output after n bytes of processed were written to it.
Written(output, processed, n) == output \o SubSeq(processed, 1, n)

\* A main loop that drops the error of out.Write.
AfterRecordIgnoreWrite(err, writeErr) ==
    IF err # "" THEN "failed" ELSE "main"

\* A main loop that goes on after an error of processRecord.
AfterRecordContinue(err, writeErr) ==
    IF writeErr THEN "failed" ELSE "main"

\* Where Process is after an iteration of the main loop: it returns the
\* error of processRecord and the error of out.Write.
AfterRecord(err, writeErr) ==
    IF err # "" \/ writeErr THEN "failed" ELSE "main"

\* One iteration of the main loop: processRecord, then out.Write.
ProcessRecord(line) ==
    /\ pc = "main"
    /\ \E res \in processRecord(p, line) :
          \E w \in (IF res.err # "" THEN {[n |-> 0, err |-> FALSE]}
                    ELSE Write(res.processed)) :
              /\ p' = res.p
              /\ last' = [recordBytes |-> line, pre |-> p,
                          processed |-> res.processed, err |-> res.err,
                          skipped |-> res.skipped, locErr |-> res.locErr,
                          apch |-> res.apch, fapWaypoint |-> res.fapWaypoint,
                          bearing |-> res.bearing, written |-> w.n,
                          writeErr |-> w.err]
              /\ pc' = AfterRecord(res.err, w.err)
              /\ out' = Written(out, res.processed, w.n)
    /\ file' = IF opt THEN file ELSE Append(file, line)
    /\ pos' = pos + 1
    /\ UNCHANGED <<opt, fault, open>>

\* The main scanner stops: at a read error, which Process returns, or at
\* the end of the input, and Process returns nil.
Finish ==
    /\ pc = "main"
    /\ IF fault = "read" THEN pc' = "failed"
       ELSE (opt => pos = Len(file)) /\ pc' = "done"
    /\ UNCHANGED <<opt, file, pos, p, out, last, fault, open>>

\* The runs of the main loop over lines from the processor pr with an
\* output that does not fail: the processor reached, the bytes written for
\* each line in turn, and the error the loop stopped at, "" when it read
\* every line.
RECURSIVE MainLoop(_, _)
MainLoop(pr, lines) ==
    IF lines = <<>> THEN {[p |-> pr, written |-> <<>>, err |-> ""]}
    ELSE UNION {IF res.err # ""
                THEN {[p |-> res.p, written |-> <<>>, err |-> res.err]}
                ELSE {[t EXCEPT !.written = <<res.processed>> \o @] :
                          t \in MainLoop(res.p, Tail(lines))} :
                    res \in processRecord(pr, Head(lines))}

Next ==
    \/ \E line \in Unread(Records, MaxFileLen) : PreProcess(line)
    \/ EndPrePass
    \/ Seek
    \/ \E line \in NextLines(Records, MaxFileLen) : ProcessRecord(line)
    \/ Finish

Spec == Init /\ [][Next]_vars

NextKinds ==
    \/ \E line \in Unread(KindRecords, MaxKindsLen) : PreProcess(line)
    \/ EndPrePass
    \/ Seek
    \/ \E line \in NextLines(KindRecords, MaxKindsLen) : ProcessRecord(line)
    \/ Finish

SpecKinds == Init /\ [][NextKinds]_vars

NextDup ==
    \/ \E line \in Unread(DupRecords, MaxDupLen) : PreProcess(line)
    \/ EndPrePass
    \/ Seek
    \/ \E line \in NextLines(DupRecords, MaxDupLen) : ProcessRecord(line)
    \/ Finish

SpecDup == Init /\ [][NextDup]_vars

NextBearing ==
    \/ \E line \in Unread(BearingRecords, MaxBearingLen) : PreProcess(line)
    \/ EndPrePass
    \/ Seek
    \/ \E line \in NextLines(BearingRecords, MaxBearingLen) : ProcessRecord(line)
    \/ Finish

SpecBearing == Init /\ [][NextBearing]_vars

NextGlobal ==
    \/ \E line \in Unread(GlobalRecords, MaxGlobalLen) : PreProcess(line)
    \/ EndPrePass
    \/ Seek
    \/ \E line \in NextLines(GlobalRecords, MaxGlobalLen) : ProcessRecord(line)
    \/ Finish

SpecGlobal == Init /\ [][NextGlobal]_vars

NextIndex ==
    \/ \E line \in Unread(IndexRecords, MaxIndexLen) : PreProcess(line)
    \/ EndPrePass
    \/ Seek
    \/ \E line \in NextLines(IndexRecords, MaxIndexLen) : ProcessRecord(line)
    \/ Finish

SpecIndex == Init /\ [][NextIndex]_vars

NextApproach ==
    \/ \E line \in Unread(ApproachRecords, MaxApproachLen) : PreProcess(line)
    \/ EndPrePass
    \/ Seek
    \/ \E line \in NextLines(ApproachRecords, MaxApproachLen) : ProcessRecord(line)
    \/ Finish

SpecApproach == Init /\ [][NextApproach]_vars

\* The program: main calls Process without options, so that there is no
\* pre-pass.
NextMain ==
    \/ Seek
    \/ \E line \in NextLines(DupRecords, MaxDupLen) : ProcessRecord(line)
    \/ Finish

SpecMain == InitMain /\ [][NextMain]_vars

\* main is about to open the CIFP file; it calls Process without options.
InitProgram ==
    /\ opt = DefaultRemoveDuplicateLocalizers
    /\ pc = "open"
    /\ file = <<>>
    /\ pos = 0
    /\ p = newProcessor
    /\ out = <<>>
    /\ last = NoCall
    /\ fault = "none"
    /\ open = {}

\* main up to os.Open: without an argument, or when the file cannot be
\* opened, log.Fatalf ends the program; otherwise inReader.Close is
\* deferred.
OpenInput ==
    /\ pc = "open"
    /\ \/ pc' = "exit1" /\ open' = open
       \/ pc' = "create" /\ open' = open \cup {"in"}
    /\ UNCHANGED <<opt, file, pos, p, out, last, fault>>

\* main up to the call of Process: the output is os.Stdout, or the file
\* os.Create returns, whose Close is deferred, or os.Create fails and
\* log.Fatalf ends the program, which runs no deferred call.
CreateOutput ==
    /\ pc = "create"
    /\ \/ pc' = "seek" /\ open' = open
       \/ pc' = "seek" /\ open' = open \cup {"out"}
       \/ pc' = "exit1" /\ open' = open
    /\ UNCHANGED <<opt, file, pos, p, out, last, fault>>

\* Process returned an error: log.Fatalf ends the program with status 1,
\* and os.Exit runs no deferred call.
Fatal ==
    /\ pc = "failed"
    /\ pc' = "exit1"
    /\ UNCHANGED <<opt, file, pos, p, out, last, fault, open>>

\* Process returned nil: main logs and returns, and the deferred Close
\* calls run.
Return ==
    /\ pc = "done"
    /\ pc' = "exit0"
    /\ open' = {}
    /\ UNCHANGED <<opt, file, pos, p, out, last, fault>>

NextProgram ==
    \/ OpenInput
    \/ CreateOutput
    \/ Seek
    \/ \E line \in NextLines(DupRecords, MaxDupLen) : ProcessRecord(line)
    \/ Finish
    \/ Fatal
    \/ Return

SpecProgram == InitProgram /\ [][NextProgram]_vars

NextIO ==
    \/ \E line \in Unread(IORecords, MaxIOLen) : PreProcess(line)
    \/ EndPrePass
    \/ Seek
    \/ \E line \in NextLines(IORecords, MaxIOLen) : ProcessRecord(line)
    \/ Finish

SpecIO == InitIO /\ [][NextIO]_vars

NextShort ==
    \/ \E line \in Unread(ShortRecords, MaxShortLen) : PreProcess(line)
    \/ EndPrePass
    \/ Seek
    \/ \E line \in NextLines(ShortRecords, MaxShortLen) : ProcessRecord(line)
    \/ Finish

SpecShort == Init /\ [][NextShort]_vars

(***************************************************************************)
(* The localizer branch of processRecord on any processor                  *)
(***************************************************************************)
\* Processors as the tests of processRecord build them by hand: with or
\* without the airport KHWD, its waypoint FERNE, its approach L28L to the
\* localizer IHWD, the waypoint FERNE among the others, and an entry of
\* IHWD among the duplicates.
LocalizerProcessors ==
    LET khwd == Field(TerminalWaypointFERNE, 7, 10)
        ferne == Field(TerminalWaypointFERNE, 14, 18)
        ihwd == Field(Localizer, 14, 17)
        l28l == Field(ApproachProcedureLocFAF, 14, 19)
        local == LatLon(Field(TerminalWaypointFERNE, 33, 41),
                        Field(TerminalWaypointFERNE, 42, 51)).point
        other == LatLon(Field(EnrouteWaypointFERNE, 33, 41),
                        Field(EnrouteWaypointFERNE, 42, 51)).point
        none == newProcessor.Airports
        waypoints == {none, MapPut(none, ferne, local)}
        approaches == {none, MapPut(none, l28l, [FinalApproachFix |-> ferne,
                                                 LocalizerID |-> ihwd])}
        airports == {none} \cup
                    {MapPut(none, khwd, [Waypoints |-> w, Approaches |-> a]) :
                         w \in waypoints, a \in approaches}
        others == {none, MapPut(none, ferne, other)}
        duplicates == {none, MapPut(none, ihwd, FALSE), MapPut(none, ihwd, TRUE)}
    IN  {[Airports |-> a, OtherWaypoints |-> o, DuplicateLocalizers |-> d] :
             a \in airports, o \in others, d \in duplicates}

LocalizerRecords == {Localizer, LocalizerBadLatLon, LocalizerLDA, LocalizerOther}

\* processRecord is about to enter its localizer branch with a processor p.
InitLocalizer ==
    /\ p \in LocalizerProcessors
    /\ opt = (DOMAIN p.DuplicateLocalizers # {})
    /\ pc = "call"
    /\ file = <<>>
    /\ pos = 0
    /\ out = <<>>
    /\ last = NoCall
    /\ fault = "none"
    /\ open = {}

\* The localizer branch of processRecord on a localizer record.
CallLocalizer(line) ==
    /\ pc = "call"
    /\ \E res \in processLocGS(p, UnmarshalRecord(line), line) :
          /\ p' = res.p
          /\ last' = [recordBytes |-> line, pre |-> p,
                      processed |-> res.processed, err |-> res.err,
                      skipped |-> res.skipped, locErr |-> res.locErr,
                      apch |-> res.apch, fapWaypoint |-> res.fapWaypoint,
                      bearing |-> res.bearing, written |-> Len(res.processed),
                      writeErr |-> FALSE]
          /\ out' = Written(out, res.processed, Len(res.processed))
    /\ pc' = "returned"
    /\ file' = <<line>>
    /\ pos' = 1
    /\ UNCHANGED <<opt, fault, open>>

NextLocalizer == \E line \in LocalizerRecords : CallLocalizer(line)

SpecLocalizer == InitLocalizer /\ [][NextLocalizer]_vars

\* 360 degrees, in 1/10000 degree.
FullCircle == 3600000

\* The bearings EncodeBearing is given, in 1/10000 degree, from 0 to below
\* 360 degrees: those of TestEncodeBearing to four decimals, the ends of
\* the range, binary fractions halfway between two hundredths, and a walk
\* round the circle. A bearing halfway between two hundredths that no
\* float64 holds exactly is left out: the float64 next to it lies on one
\* side of the middle.
Bearings ==
    {b \in {0, 1, 49, 51, 1250, 3750, 99949, 99951, 234568, 1234500, 1234568,
            3599949, 3599951, 3599998}
              \cup {(k * 299989) % FullCircle : k \in 1..MaxBearings} :
         b % 100 # 50 \/ b % 625 = 0}

\* A test of EncodeBearing has picked its bearing.
InitEncode ==
    /\ opt = FALSE
    /\ pc = "call"
    /\ file = <<>>
    /\ pos = 0
    /\ p = newProcessor
    /\ out = <<>>
    /\ last \in {[bearing |-> b, got |-> <<>>] : b \in Bearings}
    /\ fault = "none"
    /\ open = {}

\* got := EncodeBearing(tt.bearing)
CallEncodeBearing ==
    /\ pc = "call"
    /\ last' = [last EXCEPT !.got = EncodeBearing(last.bearing)]
    /\ pc' = "returned"
    /\ UNCHANGED <<opt, file, pos, p, out, fault, open>>

NextEncode == CallEncodeBearing

SpecEncode == InitEncode /\ [][NextEncode]_vars

\* The latitude texts LatLon is given: those of TestLatLon, north and south,
\* with degrees and with none, too short and empty, with a letter in the
\* degrees, the minutes and the seconds, with a blank, with a sign, with an
\* exponent.
Latitudes ==
    {<<"N","3","9","5","1","3","8","8","1">>,
     <<"S","3","9","5","1","3","8","8","1">>,
     <<"N","0","0","5","1","3","8","8","1">>,
     <<"S","0","0","5","1","3","8","8","1">>,
     <<"N","0","0","0","0","0","0","0","1">>,
     <<"S","0","0","0","0","0","0","0","1">>,
     <<"8","8","1">>,
     <<>>,
     <<"N","3","F","5","1","3","8","8","1">>,
     <<"N","3","9","F","1","3","8","8","1">>,
     <<"N","3","9","5","1","3","8","F","1">>,
     <<"N","3","9"," ","1","3","8","8","1">>,
     <<"N","3","9","-","1","3","8","8","1">>,
     <<"S","3","9","-","1","3","8","8","1">>,
     <<"N","3","9","5","1","-","8","8","1">>,
     <<"N","3","9","5","1","1","2","e","1">>}

\* The longitude texts LatLon is given: those of TestLatLon, east and west,
\* with degrees and with none, too long, with a letter in the degrees, the
\* minutes and the seconds, with a sign, with an exponent.
Longitudes ==
    {<<"E","1","0","4","4","5","0","7","9","4">>,
     <<"W","1","0","4","4","5","0","7","9","4">>,
     <<"E","0","0","0","4","5","0","7","9","4">>,
     <<"W","0","0","0","4","5","0","7","9","4">>,
     <<"W","1","0","4","4","5","0","7","9","4","5">>,
     <<"W","1","0","F","4","5","0","7","9","4">>,
     <<"W","1","0","4","F","5","0","7","9","4">>,
     <<"W","1","0","4","4","5","0","F","9","4">>,
     <<"W","+","0","4","4","5","0","7","9","4">>,
     <<"E","+","0","4","4","5","0","7","9","4">>,
     <<"W","1","0","4","4","5","1","2","E","1">>}

\* A test of LatLon has picked its latitude and longitude texts.
InitLatLon ==
    /\ opt = FALSE
    /\ pc = "call"
    /\ file = <<>>
    /\ pos = 0
    /\ p = newProcessor
    /\ out = <<>>
    /\ last \in {[latStr |-> la, lonStr |-> lo, ok |-> FALSE, point |-> <<0, 0>>] :
                     la \in Latitudes, lo \in Longitudes}
    /\ fault = "none"
    /\ open = {}

\* gotLat, gotLon, err := LatLon(tt.latStr, tt.lonStr)
CallLatLon ==
    /\ pc = "call"
    /\ LET ll == LatLon(last.latStr, last.lonStr)
       IN  last' = [last EXCEPT !.ok = ll.ok, !.point = ll.point]
    /\ pc' = "returned"
    /\ UNCHANGED <<opt, file, pos, p, out, fault, open>>

NextLatLon == CallLatLon

SpecLatLon == InitLatLon /\ [][NextLatLon]_vars

(***************************************************************************)
(* Properties                                                              *)
(*                                                                         *)
(* They are stated on the latest processRecord call: last.recordBytes is   *)
(* the line it was given, last.pre the processor it found, last.processed   *)
(* and last.err what it returned, and out the output after Process wrote   *)
(* last.processed to it.                                                   *)
(***************************************************************************)
Called == pos > 0

Line == last.recordBytes

OneLine(line) == line \o <<"\n">>

EndsWith(s, t) ==
    Len(t) <= Len(s) /\ SubSeq(s, Len(s) - Len(t) + 1, Len(s)) = t

\* The call returned no error and wrote exactly the bytes given.
Wrote(bytes) ==
    last.err = "" /\ last.processed = bytes /\ EndsWith(out, bytes)

NewlineAt(bytes) == {i \in 1..Len(bytes) : bytes[i] = "\n"}

\* bytes is two lines, each ended by a newline.
IsTwoLines(bytes) ==
    /\ Cardinality(NewlineAt(bytes)) = 2
    /\ bytes[Len(bytes)] = "\n"

FirstLine(bytes) ==
    SubSeq(bytes, 1, (CHOOSE i \in NewlineAt(bytes) :
                          \A j \in NewlineAt(bytes) : i <= j) - 1)

SecondLine(bytes) ==
    SubSeq(bytes, Len(FirstLine(bytes)) + 2, Len(bytes) - 1)

\* An airport-section localizer record, by its columns.
IsLocalizerRecord(line) == line[5] = "P" /\ line[13] = "I"

IsBlank(s) == \A i \in 1..Len(s) : s[i] = " "

\* A record whose position processRecord stores: an NDB, a VHF navaid that
\* carries a position, an enroute waypoint, a terminal waypoint.
IndexPopulating(line) ==
    \/ line[5] = "D" /\ line[6] = "B"
    \/ /\ line[5] = "D" /\ line[6] = " "
       /\ ~IsBlank(SubSeq(line, 33, 41)) /\ ~IsBlank(SubSeq(line, 42, 51))
    \/ line[5] = "E" /\ line[6] = "A"
    \/ line[5] = "P" /\ line[13] = "C"

\* A latitude or longitude text: a hemisphere letter, then 8 or 9 digits.
WellFormedPoint(s) ==
    Len(s) \in {9, 10} /\ \A i \in 2..Len(s) : s[i] \in Digits

\* The record's latitude (columns 33-41) or longitude (42-51) is malformed.
Malformed(line) ==
    \/ ~WellFormedPoint(TrimRight(SubSeq(line, 33, 41)))
    \/ ~WellFormedPoint(TrimRight(SubSeq(line, 42, 51)))

\* The position the record's columns 33-51 give.
PositionOf(line) ==
    LatLon(TrimRight(SubSeq(line, 33, 41)), TrimRight(SubSeq(line, 42, 51))).point

AirportOf(line) == TrimRight(SubSeq(line, 7, 10))

LocalizerOf(line) == TrimRight(SubSeq(line, 14, 17))

HasAirport == AirportOf(Line) \in DOMAIN last.pre.Airports

\* The approaches of the record's airport entry for the record's localizer,
\* in the index the call found.
MatchingApproaches ==
    IF HasAirport
    THEN LET a == last.pre.Airports[AirportOf(Line)]
         IN  {a.Approaches[id] : id \in {x \in DOMAIN a.Approaches :
                  a.Approaches[x].LocalizerID = LocalizerOf(Line)}}
    ELSE {}

\* The record is a duplicated localizer of category 'A' or 'L'.
Dropped ==
    /\ LocalizerOf(Line) \in DOMAIN last.pre.DuplicateLocalizers
    /\ last.pre.DuplicateLocalizers[LocalizerOf(Line)]
    /\ Line[18] \in {"A", "L"}

\* The entry of a fix in the airport-local map of the record's airport and
\* in the global map, <<>> when it has none.
LocalFix(fix) ==
    IF HasAirport /\ fix \in DOMAIN last.pre.Airports[AirportOf(Line)].Waypoints
    THEN <<last.pre.Airports[AirportOf(Line)].Waypoints[fix]>>
    ELSE <<>>

GlobalFix(fix) ==
    IF fix \in DOMAIN last.pre.OtherWaypoints
    THEN <<last.pre.OtherWaypoints[fix]>>
    ELSE <<>>

HasPosition(fix) == LocalFix(fix) # <<>> \/ GlobalFix(fix) # <<>>

\* The call resolved the record's localizer to an approach of its airport.
Resolved ==
    /\ IsLocalizerRecord(Line)
    /\ ~Dropped
    /\ last.apch # <<>>
    /\ last.apch[1] \in MatchingApproaches

\* An azimuth of the geodesy library brought into [0, 360).
Normalised(azimuth) == IF azimuth < 0 THEN azimuth + 3600000 ELSE azimuth

\* C1, as first stated: for every input record that is not an airport-section
\* localizer record, whatever the index holds, the main pass writes exactly
\* one line, the input line byte for byte and a newline.
C1_AsStated ==
    (Called /\ ~IsLocalizerRecord(Line)) => Wrote(OneLine(Line))

\* C1: for every input record that is not an airport-section localizer
\* record and is not an index-populating record with a malformed latitude
\* or longitude, whatever the index holds, processRecord returns no error
\* and the main pass writes exactly one line, the input line byte for byte
\* and a newline.
C1_PassThrough ==
    (Called /\ ~IsLocalizerRecord(Line)
            /\ ~(IndexPopulating(Line) /\ Malformed(Line)))
        => Wrote(OneLine(Line))

\* A record with blank columns inside its data is passed through while the
\* index holds a position and an airport.
C1_Witness ==
    /\ Called
    /\ ~IsLocalizerRecord(Line)
    /\ IndexPopulating(Line)
    /\ IsBlank(SubSeq(Line, 7, 13))
    /\ DOMAIN last.pre.Airports # {}
    /\ Wrote(OneLine(Line))

C3_ContinuationLine ==
    (Called /\ IsLocalizerRecord(Line) /\ last.bearing # <<>>)
        => /\ IsTwoLines(last.processed)
           /\ LET first == FirstLine(last.processed)
                  second == SecondLine(last.processed)
              IN  /\ SubSeq(second, 1, 13) = SubSeq(first, 1, 13)
                  /\ SubSeq(first, 124, 132) = SubSeq(Line, 124, 132)
                  /\ second = SubSeq(Line, 1, 13) \o SubSeq(Line, 14, 17)
                                 \o <<Line[18]>> \o Blank(3) \o <<"2", "S">>
                                 \o Blank(28) \o EncodeBearing(last.bearing[1])
                                 \o <<"N">> \o Blank(66)
                                 \o SubSeq(Line, 124, 132)

C3_Witness ==
    /\ Called
    /\ IsLocalizerRecord(Line)
    /\ last.bearing # <<>>
    /\ Line[18] # " "
    /\ ~IsBlank(SubSeq(Line, 124, 132))
    /\ SecondLine(last.processed)[57] = "N"
    /\ SubSeq(SecondLine(last.processed), 124, 132) = SubSeq(Line, 124, 132)

\* C4: the primary line of a localizer that got a continuation line is the
\* input line with column 22 set to '1': every other column, those no field
\* names (19-21, 111-123) too, is as in the input.
C4_PrimaryLine ==
    (Called /\ IsLocalizerRecord(Line) /\ last.bearing # <<>>)
        => /\ IsTwoLines(last.processed)
           /\ FirstLine(last.processed) = [Line EXCEPT ![22] = "1"]

EmittedAsIs ==
    /\ Wrote(OneLine(Line))
    /\ pc \in {"main", "done"}

\* C6, as first stated: a localizer record whose airport entry holds no
\* approach for its localizer is emitted as exactly one line identical to
\* the input line; processRecord returns no error and Process goes on.
C6_AsStated ==
    (Called /\ IsLocalizerRecord(Line) /\ MatchingApproaches = {})
        => EmittedAsIs

\* C6: a localizer record that is not dropped as a duplicated localizer of
\* category 'A' or 'L' and whose airport entry holds no approach for its
\* localizer is emitted as exactly one line identical to the input line;
\* processRecord returns no error and Process goes on.
C6_NoApproach ==
    (Called /\ IsLocalizerRecord(Line) /\ ~Dropped /\ MatchingApproaches = {})
        => EmittedAsIs

\* The airport has approaches, none of them for the record's localizer.
C6_Witness ==
    /\ Called
    /\ IsLocalizerRecord(Line)
    /\ ~Dropped
    /\ HasAirport
    /\ DOMAIN last.pre.Airports[AirportOf(Line)].Approaches # {}
    /\ MatchingApproaches = {}
    /\ EmittedAsIs

\* C7, as first stated: a localizer record whose matching approach names a
\* final approach fix that is in neither the airport-local map nor the
\* global map is emitted as exactly one line identical to the input line,
\* with no error.
C7_AsStated ==
    (Called /\ IsLocalizerRecord(Line) /\ MatchingApproaches # {}
            /\ \A ap \in MatchingApproaches : ~HasPosition(ap.FinalApproachFix))
        => EmittedAsIs

\* C7: a localizer record that is not dropped as a duplicated localizer of
\* category 'A' or 'L' and for which the approach its airport entry gives
\* names a final approach fix that is in neither the airport-local map nor
\* the global map is emitted as exactly one line identical to the input
\* line, with no error.
C7_NoFix ==
    (Called /\ Resolved /\ ~HasPosition(last.apch[1].FinalApproachFix))
        => EmittedAsIs

C7_Witness ==
    /\ Called
    /\ Resolved
    /\ ~HasPosition(last.apch[1].FinalApproachFix)
    /\ DOMAIN last.pre.OtherWaypoints # {}
    /\ last.fapWaypoint = <<>>
    /\ EmittedAsIs

C9_MalformedPosition ==
    (Called /\ IndexPopulating(Line) /\ Malformed(Line))
        => /\ last.err # ""
           /\ pc = "failed"
           /\ last.processed = <<>>
           /\ ~EndsWith(out, OneLine(Line))

\* Process stops at a malformed position after it has written other lines.
C9_Witness ==
    /\ Called
    /\ IndexPopulating(Line)
    /\ Malformed(Line)
    /\ pc = "failed"
    /\ last.err # ""
    /\ out # <<>>

\* C10: the position of the final approach fix is its entry in the
\* airport-local map when there is one, else its entry in the global map:
\* the local entry wins when both maps have the fix, and a fix that only
\* the global map has still gets the localizer its continuation line.
C10_FixPosition ==
    (Called /\ Resolved /\ HasPosition(last.apch[1].FinalApproachFix)
            /\ ~Malformed(Line))
        => LET fix == last.apch[1].FinalApproachFix
               expected == IF LocalFix(fix) # <<>> THEN LocalFix(fix)
                           ELSE GlobalFix(fix)
           IN  /\ last.fapWaypoint = expected
               /\ last.bearing # <<>>
               /\ IsTwoLines(last.processed)
               /\ SubSeq(SecondLine(last.processed), 52, 56) =
                      EncodeBearing(Normalised(BearingTo(expected[1], PositionOf(Line))))

\* Both maps have the fix, at two positions, and the local one is used.
C10_Witness ==
    /\ Called
    /\ Resolved
    /\ ~Malformed(Line)
    /\ LET fix == last.apch[1].FinalApproachFix
       IN  /\ LocalFix(fix) # <<>>
           /\ GlobalFix(fix) # <<>>
           /\ LocalFix(fix) # GlobalFix(fix)
           /\ last.fapWaypoint = LocalFix(fix)
    /\ IsTwoLines(last.processed)

\* Number of newlines of bytes, and whether bytes is lines ended by one.
LineCount(bytes) == Cardinality(NewlineAt(bytes))

WholeLines(bytes) == bytes = <<>> \/ bytes[Len(bytes)] = "\n"

\* An index-populating record with a malformed latitude or longitude.
Rejected(line) == IndexPopulating(line) /\ Malformed(line)

\* The pre-pass marked the record's localizer identifier as duplicated.
Duplicated ==
    /\ LocalizerOf(Line) \in DOMAIN last.pre.DuplicateLocalizers
    /\ last.pre.DuplicateLocalizers[LocalizerOf(Line)]

\* What processRecord can write for the record when the processor holds no
\* duplicates.
NormalOutputs ==
    {r.processed :
         r \in processRecord([last.pre EXCEPT !.DuplicateLocalizers =
                                  newProcessor.DuplicateLocalizers], Line)}

\* C11, as first stated: with duplicate removal enabled, a record produces
\* zero output lines if and only if it is a localizer record whose
\* identifier the pre-pass marked duplicated and whose category is 'A' or
\* 'L'; every other record produces at least one line.
C11_AsStated ==
    (Called /\ opt)
        => /\ (last.processed = <<>>) <=> (IsLocalizerRecord(Line) /\ Dropped)
           /\ ~(IsLocalizerRecord(Line) /\ Dropped) => LineCount(last.processed) >= 1

\* C11: with duplicate removal enabled, a record that processRecord does
\* not reject with an error (an index-populating record with a malformed
\* latitude or longitude) produces zero output lines if and only if it is a
\* localizer record whose identifier the pre-pass marked duplicated and
\* whose category is 'A' or 'L'; a localizer with a duplicated identifier
\* and another category is processed as without the mark, and every other
\* such record produces at least one line.
C11_DroppedOnly ==
    (Called /\ opt /\ ~Rejected(Line))
        => /\ last.err = ""
           /\ (last.processed = <<>>) <=> (IsLocalizerRecord(Line) /\ Dropped)
           /\ ~(IsLocalizerRecord(Line) /\ Dropped)
                  => LineCount(last.processed) >= 1 /\ WholeLines(last.processed)
           /\ (IsLocalizerRecord(Line) /\ Duplicated /\ Line[18] \notin {"A", "L"})
                  => last.processed \in NormalOutputs

\* A duplicated localizer of category 'A' has been dropped after the
\* localizer of the same identifier and another category got its
\* continuation line.
C11_Witness ==
    /\ Called
    /\ opt
    /\ IsLocalizerRecord(Line)
    /\ Dropped
    /\ last.processed = <<>>
    /\ pos >= 2
    /\ IsLocalizerRecord(file[pos - 1])
    /\ file[pos - 1][18] \notin {"A", "L"}
    /\ LocalizerOf(file[pos - 1]) = LocalizerOf(Line)
    /\ out # <<>>
    /\ LineCount(out) = pos

LocalizerLines(f) == {k \in 1..Len(f) : IsLocalizerRecord(f[k])}

Occurrences(f, id) ==
    Cardinality({k \in LocalizerLines(f) : LocalizerOf(f[k]) = id})

\* C13, as stated: when Process is called without the duplicate-removal
\* setting, as main calls it, a localizer record of category 'A' or 'L'
\* whose identifier occurs several times in the file is removed from the
\* output.
C13_RemovedByDefault ==
    (/\ Called
     /\ IsLocalizerRecord(Line)
     /\ Line[18] \in {"A", "L"}
     /\ Occurrences(file, LocalizerOf(Line)) >= 2)
        => last.processed = <<>>

\* The duplicate map is the count of the localizer records of f.
CountsLocalizers(dups, f) ==
    /\ DOMAIN dups = {LocalizerOf(f[k]) : k \in LocalizerLines(f)}
    /\ \A id \in DOMAIN dups : dups[id] <=> (Occurrences(f, id) >= 2)

\* C14: after the pre-pass has scanned any sequence of records, the
\* duplicate map holds an entry for a localizer identifier exactly when a
\* localizer record with that identifier was scanned, false for one such
\* record and true for two or more, and an entry that is true never goes
\* back to false.
C14_DuplicateMap ==
    [][/\ opt => CountsLocalizers(p'.DuplicateLocalizers, file')
       /\ \A id \in DOMAIN p.DuplicateLocalizers :
              p.DuplicateLocalizers[id]
                  => /\ id \in DOMAIN p'.DuplicateLocalizers
                     /\ p'.DuplicateLocalizers[id]]_vars

\* The pre-pass has scanned two records of one localizer identifier and
\* one of another, and a record since the entry of the first became true.
C14_Witness ==
    /\ pc = "prepass"
    /\ Len(file) = 4
    /\ IsLocalizerRecord(file[1])
    /\ IsLocalizerRecord(file[2])
    /\ LocalizerOf(file[1]) = LocalizerOf(file[2])
    /\ IsLocalizerRecord(file[4])
    /\ LocalizerOf(file[4]) # LocalizerOf(file[1])
    /\ p.DuplicateLocalizers[LocalizerOf(file[1])]
    /\ ~p.DuplicateLocalizers[LocalizerOf(file[4])]

\* C15: the output of Process is the concatenation, in input order, of the
\* lines produced for each record: every iteration of the main loop appends
\* the zero, one or two newline-terminated lines of the next record to the
\* end of the output, and no other step changes the output.
C15_InputOrder ==
    [][\/ /\ pos' = pos + 1
          /\ last'.recordBytes = file'[pos']
          /\ out' = out \o last'.processed
          /\ LineCount(last'.processed) \in {0, 1, 2}
          /\ WholeLines(last'.processed)
       \/ /\ pos' = pos
          /\ out' = out]_vars

\* The third record got two lines, which follow the line of the first
\* record and the line of the second.
C15_Witness ==
    /\ pos = 3
    /\ IsTwoLines(last.processed)
    /\ out = OneLine(file[1]) \o OneLine(file[2]) \o last.processed

\* C16: any I/O failure is fatal: a read error during the pre-pass or the
\* main pass, a failed seek to the start of the input and a failed write
\* of a processed record each make Process return an error, and after a
\* failed write no further record is read or written.
C16_IOFailureFatal ==
    [][/\ pc # "failed"
       /\ (fault = "preread" /\ pc = "prepass" /\ pc' # "prepass") => pc' = "failed"
       /\ (fault = "seek" /\ pc = "seek") => pc' = "failed"
       /\ (fault = "read") => pc' # "done"
       /\ (fault = "read" /\ pc = "main" /\ pos' = pos) => pc' = "failed"
       /\ (pos' = pos + 1 /\ last'.writeErr) => pc' = "failed"]_vars

\* A write failed after an earlier record was written, and Process has
\* returned the error.
C16_Witness ==
    /\ fault = "write"
    /\ last.writeErr
    /\ pc = "failed"
    /\ pos >= 2
    /\ out # <<>>

\* C17: Process either returns success after writing the lines of every
\* input record, or returns one error; when processRecord fails on record
\* k, Process returns that error, the output holds the lines of the records
\* before k and nothing is written for record k or a later one.
C17_SingleError ==
    [][/\ pc \notin {"failed", "done"}
       /\ (pos' = pos + 1 /\ last'.err # "") => (pc' = "failed" /\ out' = out)
       /\ (pos' = pos + 1 /\ last'.err = "") => (pc' = "main" /\ out' = out \o last'.processed)
       /\ pc' = "failed" => last'.err # ""
       /\ pc' = "done" => (last'.err = "" /\ pos' = Len(file') /\ out' = out)]_vars

\* Process has returned the error of the second record, and the output is
\* the line of the first.
C17_Witness ==
    /\ pc = "failed"
    /\ pos = 2
    /\ last.err # ""
    /\ out = OneLine(file[1])

\* The error processLocalizer returns when the airport of the localizer has
\* no entry.
NoAirportError == "found localizer without corresponding airport"

C19_SameOutput ==
    Called => \A r1, r2 \in processRecord(last.pre, Line) :
                  r1.processed = r2.processed

\* C20, as stated: a record whose bytes are shorter than the record is a
\* decode failure: Process returns an error and writes nothing for it.
C20_ShortLineFails ==
    (Called /\ Len(Line) < RecordWidth)
        => last.err # "" /\ pc = "failed" /\ last.processed = <<>>

\* C21, as stated: the program never exits, with status 0 or through
\* log.Fatalf, while a file it has opened has not been closed.
C21_ClosedOnExit == pc \in {"exit0", "exit1"} => open = {}

\* C22, as stated: with duplicate removal disabled Process does not fail
\* because the input cannot seek.
C22_NoSeekNeeded == (~opt /\ fault = "seek") => pc # "failed"

\* A leg of an approach of an airport, and the columns of its procedure
\* identifier, fix, waypoint description code and recommended navaid.
IsApproachLeg(line) == line[5] = "P" /\ line[13] = "F"

ProcedureOf(line) == TrimRight(SubSeq(line, 14, 19))

FixOf(line) == TrimRight(SubSeq(line, 30, 34))

NavaidOf(line) == TrimRight(SubSeq(line, 51, 54))

\* A leg that is the final approach fix of a localizer-based approach.
StoredLeg(line) ==
    /\ IsApproachLeg(line)
    /\ line[14] \in {"I", "L", "U", "X"}
    /\ line[43] = "F"

\* The record k of the file is the last leg processed so far that is
\* stored for its procedure at its airport.
LastStoredLeg(k) ==
    /\ StoredLeg(file[k])
    /\ \A j \in (k + 1)..pos :
           ~(/\ StoredLeg(file[j])
             /\ AirportOf(file[j]) = AirportOf(file[k])
             /\ ProcedureOf(file[j]) = ProcedureOf(file[k]))

EmptyAirport == [Waypoints |-> <<>>, Approaches |-> <<>>]

\* C23: processing an approach leg whose procedure identifier starts with
\* 'I', 'L', 'U' or 'X' and whose waypoint description code has 'F' as its
\* fourth character sets the approach of that procedure at that airport to
\* the leg's fix and recommended navaid, in a new entry or over the one
\* there is, so that after any sequence of legs the entry is the last such
\* leg of the procedure.
C23_ApproachUpsert ==
    /\ (Called /\ StoredLeg(Line))
           => /\ last.err = ""
              /\ AirportOf(Line) \in DOMAIN p.Airports
              /\ ProcedureOf(Line) \in DOMAIN p.Airports[AirportOf(Line)].Approaches
    /\ \A k \in 1..pos :
           LastStoredLeg(k)
               => /\ AirportOf(file[k]) \in DOMAIN p.Airports
                  /\ ProcedureOf(file[k])
                         \in DOMAIN p.Airports[AirportOf(file[k])].Approaches
                  /\ p.Airports[AirportOf(file[k])].Approaches[ProcedureOf(file[k])]
                         = [FinalApproachFix |-> FixOf(file[k]),
                            LocalizerID |-> NavaidOf(file[k])]

\* A second final approach fix of a procedure, with another fix and another
\* navaid, has replaced the first.
C23_Witness ==
    /\ pos >= 2
    /\ StoredLeg(file[pos - 1])
    /\ StoredLeg(Line)
    /\ AirportOf(file[pos - 1]) = AirportOf(Line)
    /\ ProcedureOf(file[pos - 1]) = ProcedureOf(Line)
    /\ FixOf(file[pos - 1]) # FixOf(Line)
    /\ NavaidOf(file[pos - 1]) # NavaidOf(Line)
    /\ last.pre.Airports[AirportOf(Line)].Approaches[ProcedureOf(Line)].FinalApproachFix
           = FixOf(file[pos - 1])
    /\ p.Airports[AirportOf(Line)].Approaches[ProcedureOf(Line)].FinalApproachFix
           = FixOf(Line)

\* The index after the call is the index before it, with an empty entry for
\* the record's airport when it had none.
OnlyEnsuresAirport ==
    /\ p.OtherWaypoints = last.pre.OtherWaypoints
    /\ p.DuplicateLocalizers = last.pre.DuplicateLocalizers
    /\ DOMAIN p.Airports = DOMAIN last.pre.Airports \cup {AirportOf(Line)}
    /\ \A a \in DOMAIN last.pre.Airports : p.Airports[a] = last.pre.Airports[a]
    /\ ~HasAirport => p.Airports[AirportOf(Line)] = EmptyAirport

\* C24: an approach leg that is not a final approach fix (the fourth
\* character of its waypoint description code is not 'F', or the code has
\* fewer than four characters) or whose procedure identifier does not start
\* with 'I', 'L', 'U' or 'X' leaves every approach map and every waypoint
\* map unchanged; it only makes sure its airport has an entry.
C24_LegNotStored ==
    (Called /\ IsApproachLeg(Line) /\ ~StoredLeg(Line))
        => last.err = "" /\ OnlyEnsuresAirport

\* A leg whose description code is shorter than four characters and holds
\* an 'F' has left the approach its procedure has at its airport.
C24_Witness ==
    /\ Called
    /\ IsApproachLeg(Line)
    /\ Line[14] \in {"I", "L", "U", "X"}
    /\ Len(TrimRight(SubSeq(Line, 40, 43))) < 4
    /\ \E i \in 40..43 : Line[i] = "F"
    /\ HasAirport
    /\ ProcedureOf(Line) \in DOMAIN last.pre.Airports[AirportOf(Line)].Approaches
    /\ p = last.pre

\* C25: when processRecord hands a localizer record to processLocalizer its
\* airport has an entry, whatever the records before it, also when the
\* localizer is the first record of its airport: processLocalizer never
\* returns its missing-airport error in a run of Process.
C25_AirportExists ==
    (Called /\ IsLocalizerRecord(Line))
        => /\ last.locErr # NoAirportError
           /\ AirportOf(Line) \in DOMAIN p.Airports
           /\ ~HasAirport => p.Airports[AirportOf(Line)] = EmptyAirport

\* A localizer was the first record of its airport, and processLocalizer
\* found the airport and no approach.
C25_Witness ==
    /\ Called
    /\ IsLocalizerRecord(Line)
    /\ ~HasAirport
    /\ ~Dropped
    /\ last.locErr # ""
    /\ last.locErr # NoAirportError
    /\ p.Airports[AirportOf(Line)] = EmptyAirport
    /\ last.processed = OneLine(Line)

\* The identifiers of m remain in n.
Grows(m, n) == DOMAIN m \subseteq DOMAIN n

\* The entries of m remain in n with their values, but for the identifier
\* written.
Keeps(m, n, written) ==
    \A id \in DOMAIN m \ written : id \in DOMAIN n /\ n[id] = m[id]

\* The identifier a terminal waypoint record stores a position under, and
\* the one a stored approach leg stores an approach under.
WaypointWritten(line) ==
    IF line[13] = "C" THEN {TrimRight(SubSeq(line, 14, 18))} ELSE {}

ApproachWritten(line) ==
    IF StoredLeg(line) THEN {ProcedureOf(line)} ELSE {}

\* C26: making sure an airport has an entry is idempotent and nothing is
\* deleted: a step of Process keeps every airport, every waypoint and
\* approach identifier of every airport and every global waypoint
\* identifier, and an airport-section record for an airport that has an
\* entry keeps the waypoints and approaches stored for it, but for the one
\* the record itself writes.
C26_OnlyGrows ==
    [][/\ Grows(p.Airports, p'.Airports)
       /\ Grows(p.OtherWaypoints, p'.OtherWaypoints)
       /\ \A a \in DOMAIN p.Airports :
              /\ Grows(p.Airports[a].Waypoints, p'.Airports[a].Waypoints)
              /\ Grows(p.Airports[a].Approaches, p'.Airports[a].Approaches)
       /\ pos' = pos + 1
              => LET line == last'.recordBytes
                     a == AirportOf(line)
                 IN  (line[5] = "P" /\ a \in DOMAIN p.Airports)
                         => /\ Keeps(p.Airports[a].Waypoints,
                                     p'.Airports[a].Waypoints,
                                     WaypointWritten(line))
                            /\ Keeps(p.Airports[a].Approaches,
                                     p'.Airports[a].Approaches,
                                     ApproachWritten(line))]_vars

\* The record of an airport that has an entry with a waypoint and an
\* approach was processed, and the entry is as it was.
C26_Witness ==
    /\ Called
    /\ Line[5] = "P"
    /\ Line[13] = "A"
    /\ HasAirport
    /\ last.pre.Airports[AirportOf(Line)].Waypoints # <<>>
    /\ last.pre.Airports[AirportOf(Line)].Approaches # <<>>
    /\ p = last.pre

\* A VHF navaid record whose VOR latitude or VOR longitude is empty.
IsVHFNavaid(line) == line[5] = "D" /\ line[6] = " "

NoVORPosition(line) ==
    IsBlank(SubSeq(line, 33, 41)) \/ IsBlank(SubSeq(line, 42, 51))

\* C27: a VHF navaid record whose VOR latitude or VOR longitude is empty is
\* skipped and no error: the processor is unchanged, processRecord returns
\* no error and the record is written unmodified.
C27_NavaidWithoutPosition ==
    (Called /\ IsVHFNavaid(Line) /\ NoVORPosition(Line))
        => /\ last.err = ""
           /\ p = last.pre
           /\ last.processed = OneLine(Line)

\* A VHF navaid with a VOR latitude and no VOR longitude was written as it
\* came, after a navaid was stored.
C27_Witness ==
    /\ Called
    /\ IsVHFNavaid(Line)
    /\ ~IsBlank(SubSeq(Line, 33, 41))
    /\ IsBlank(SubSeq(Line, 42, 51))
    /\ last.pre.OtherWaypoints # <<>>
    /\ p = last.pre
    /\ last.err = ""
    /\ last.processed = OneLine(Line)

\* A terminal waypoint record, and a record that stores a position outside
\* the airports with the identifier it stores it under.
IsTerminalWaypoint(line) == line[5] = "P" /\ line[13] = "C"

IsGlobalPosition(line) ==
    \/ line[5] = "D" /\ line[6] = "B"
    \/ IsVHFNavaid(line)
    \/ line[5] = "E" /\ line[6] = "A"

GlobalWritten(line) ==
    IF line[5] = "E" THEN TrimRight(SubSeq(line, 14, 18))
    ELSE TrimRight(SubSeq(line, 14, 17))

\* C28: each index-populating record changes only its own map: a terminal
\* waypoint record writes the entry of its waypoint in the waypoint map of
\* its airport and leaves the global waypoint map and the other airports
\* as they are; an NDB, VHF navaid or enroute waypoint record writes its
\* entry of the global waypoint map and creates or changes no airport.
C28_OwnMapOnly ==
    /\ (Called /\ IsTerminalWaypoint(Line) /\ ~Malformed(Line))
           => LET a == AirportOf(Line)
                  before == IF HasAirport THEN last.pre.Airports[a] ELSE EmptyAirport
                  id == TrimRight(SubSeq(Line, 14, 18))
              IN  /\ p.OtherWaypoints = last.pre.OtherWaypoints
                  /\ p.DuplicateLocalizers = last.pre.DuplicateLocalizers
                  /\ DOMAIN p.Airports = DOMAIN last.pre.Airports \cup {a}
                  /\ \A b \in DOMAIN last.pre.Airports \ {a} :
                         p.Airports[b] = last.pre.Airports[b]
                  /\ p.Airports[a].Approaches = before.Approaches
                  /\ DOMAIN p.Airports[a].Waypoints = DOMAIN before.Waypoints \cup {id}
                  /\ p.Airports[a].Waypoints[id] = PositionOf(Line)
                  /\ Keeps(before.Waypoints, p.Airports[a].Waypoints, {id})
    /\ (Called /\ IsGlobalPosition(Line))
           => /\ p.Airports = last.pre.Airports
              /\ p.DuplicateLocalizers = last.pre.DuplicateLocalizers
              /\ DOMAIN p.OtherWaypoints
                     \subseteq DOMAIN last.pre.OtherWaypoints \cup {GlobalWritten(Line)}
              /\ Keeps(last.pre.OtherWaypoints, p.OtherWaypoints, {GlobalWritten(Line)})
              /\ (last.err = "" /\ ~(IsVHFNavaid(Line) /\ NoVORPosition(Line)))
                     => /\ GlobalWritten(Line) \in DOMAIN p.OtherWaypoints
                        /\ p.OtherWaypoints[GlobalWritten(Line)] = PositionOf(Line)

\* A terminal waypoint was stored at its airport while another airport and
\* the global map hold a waypoint of the same identifier, which they keep.
C28_Witness ==
    /\ Called
    /\ IsTerminalWaypoint(Line)
    /\ ~HasAirport
    /\ LET id == TrimRight(SubSeq(Line, 14, 18))
       IN  /\ id \in DOMAIN last.pre.OtherWaypoints
           /\ \E b \in DOMAIN last.pre.Airports :
                  /\ id \in DOMAIN last.pre.Airports[b].Waypoints
                  /\ p.Airports[b] = last.pre.Airports[b]
                  /\ last.pre.Airports[b].Waypoints[id] # PositionOf(Line)
           /\ p.Airports[AirportOf(Line)].Waypoints[id] = PositionOf(Line)
           /\ p.OtherWaypoints = last.pre.OtherWaypoints

\* C29: processing a localizer record, whether it gets its continuation
\* record, is written unmodified or is dropped as a duplicate, changes no
\* approach, no local waypoint and no global waypoint; it only makes sure
\* its airport has an entry.
C29_LocalizerFrame ==
    (Called /\ IsLocalizerRecord(Line)) => last.err = "" /\ OnlyEnsuresAirport

\* A localizer got its continuation record and the index is as it was.
C29_Witness ==
    /\ Called
    /\ IsLocalizerRecord(Line)
    /\ IsTwoLines(last.processed)
    /\ last.pre.Airports[AirportOf(Line)].Approaches # <<>>
    /\ last.pre.Airports[AirportOf(Line)].Waypoints # <<>>
    /\ p = last.pre

\* C30: the pre-pass performs no correlation and produces no output:
\* preProcess leaves the airports and the global waypoint map as they are
\* and writes nothing, and a record that is no airport-section localizer
\* record leaves the duplicate map as it is too.
C30_PrePassFrame ==
    [][(pc = "prepass" /\ file' # file)
          => /\ p'.Airports = p.Airports
             /\ p'.OtherWaypoints = p.OtherWaypoints
             /\ out' = out
             /\ last' = last
             /\ ~IsLocalizerRecord(file'[Len(file')])
                    => p'.DuplicateLocalizers = p.DuplicateLocalizers]_vars

\* The pre-pass has scanned an airport record, a record with a malformed
\* position and a localizer: only the duplicate map holds something.
C30_Witness ==
    /\ pc = "prepass"
    /\ Len(file) = 3
    /\ \E i \in 1..3 : file[i][5] = "P" /\ ~IsLocalizerRecord(file[i])
    /\ \E i \in 1..3 : IndexPopulating(file[i]) /\ Malformed(file[i])
    /\ IsLocalizerRecord(file[3])
    /\ DOMAIN p.DuplicateLocalizers = {LocalizerOf(file[3])}
    /\ p.Airports = <<>>
    /\ p.OtherWaypoints = <<>>
    /\ out = <<>>

\* C31: the duplicate-localizer map is read-only during the main pass: no
\* call of processRecord, whatever the record and the outcome, adds,
\* removes or changes an entry of it; with duplicate removal enabled it
\* stays what the pre-pass counted over the whole file, and with duplicate
\* removal disabled it stays empty for the whole run.
C31_DuplicateMapReadOnly ==
    /\ Called => p.DuplicateLocalizers = last.pre.DuplicateLocalizers
    /\ pc # "prepass"
           => CountsLocalizers(p.DuplicateLocalizers, IF opt THEN file ELSE <<>>)
    /\ ~opt => p.DuplicateLocalizers = newProcessor.DuplicateLocalizers

\* A localizer that processLocalizer could not resolve has been written as
\* read while the map held a duplicated identifier, and the map is as the
\* call found it.
C31_Witness ==
    /\ Called
    /\ opt
    /\ IsLocalizerRecord(Line)
    /\ last.locErr # ""
    /\ last.processed = OneLine(Line)
    /\ \E id \in DOMAIN last.pre.DuplicateLocalizers :
           last.pre.DuplicateLocalizers[id]
    /\ p.DuplicateLocalizers = last.pre.DuplicateLocalizers

\* C32: with duplicate removal enabled the two passes are strictly
\* ordered: nothing is written and no record is processed before the
\* pre-pass has consumed the whole input; the main pass then reads the file
\* again from its first line, each line once and in order, up to the last;
\* a localizer record is dropped exactly when its category is 'A' or 'L'
\* and its identifier occurs twice or more anywhere in the file, before or
\* after it, so the first such occurrence is dropped like the later ones.
C32_PassesOrdered ==
    opt => /\ pc \in {"prepass", "seek"} => out = <<>> /\ pos = 0
           /\ Called => pos <= Len(file) /\ Line = file[pos]
           /\ pc = "done" => pos = Len(file)
           /\ (Called /\ IsLocalizerRecord(Line))
                  => ((last.processed = <<>>)
                          <=> /\ Line[18] \in {"A", "L"}
                              /\ Occurrences(file, LocalizerOf(Line)) >= 2)

\* The first record of the file, a localizer of category 'A', has been
\* dropped because of an occurrence of its identifier later in the file.
C32_Witness ==
    /\ opt
    /\ pos = 1
    /\ IsLocalizerRecord(Line)
    /\ Line[18] \in {"A", "L"}
    /\ last.processed = <<>>
    /\ out = <<>>
    /\ \E k \in 2..Len(file) :
           IsLocalizerRecord(file[k]) /\ LocalizerOf(file[k]) = LocalizerOf(Line)

\* The bearing field, columns 52 to 56, of the continuation line written.
BearingField == SubSeq(SecondLine(last.processed), 52, 56)

\* C33, as stated: the bearing field of every emitted continuation record
\* encodes a value in [0, 360): five digits between "00000" and "35999",
\* never "36000" and never a negative number.
C33_BelowFullCircle ==
    (Called /\ IsLocalizerRecord(Line) /\ IsTwoLines(last.processed))
        => /\ Len(BearingField) = 5
           /\ IsDigits(BearingField)
           /\ Decimal(BearingField) \in 0..35999

\* The hundredths of a degree nearest to a bearing in 1/10000 degree.
NearestHundredths(b) == {r \in 0..36000 : 100 * r - b <= 50 /\ b - 100 * r <= 50}

\* C34: for every bearing in [0, 360), EncodeBearing returns exactly five
\* digit characters, the decimal point implied after the third: the bearing
\* rounded to two decimal places, the integer part zero-padded to three
\* digits; 123.4568 gives "12346" and 23.4568 gives "02346".
C34_FiveDigits ==
    pc = "returned"
        => /\ last.bearing \in 0..(FullCircle - 1)
           /\ Len(last.got) = 5
           /\ IsDigits(last.got)
           /\ Decimal(last.got) \in NearestHundredths(last.bearing)
           /\ SubSeq(last.got, 1, 3)
                  = ZeroPad(DecimalString(Decimal(last.got) \div 100), 3)
           /\ last.bearing = 1234568 => last.got = <<"1", "2", "3", "4", "6">>
           /\ last.bearing = 234568 => last.got = <<"0", "2", "3", "4", "6">>

\* EncodeBearing has returned "02346" for 23.4568 degrees.
C34_Witness ==
    /\ pc = "returned"
    /\ last.bearing = 234568
    /\ last.got = <<"0", "2", "3", "4", "6">>

\* A coordinate text with its first byte, the hemisphere letter, replaced.
Hemisphere(s, letter) == Put(s, 1, <<letter>>)

\* C35: for coordinate texts that decode, replacing the hemisphere letter
\* 'N' by 'S' negates the decoded latitude and replacing 'E' by 'W' negates
\* the decoded longitude, and both leave the other component unchanged,
\* also when the degrees field is zero: degrees, minutes and seconds are
\* each negated.
C35_HemisphereNegates ==
    (pc = "returned" /\ last.ok)
        => /\ last.latStr[1] = "N"
                  => LET south == LatLon(Hemisphere(last.latStr, "S"), last.lonStr)
                     IN  /\ south.ok
                         /\ south.point = <<0 - last.point[1], last.point[2]>>
                         /\ parsePoint(Hemisphere(last.latStr, "S"))
                                = [f \in DOMAIN parsePoint(last.latStr) |->
                                      IF f = "ok" THEN TRUE
                                      ELSE 0 - parsePoint(last.latStr)[f]]
           /\ last.lonStr[1] = "E"
                  => LET west == LatLon(last.latStr, Hemisphere(last.lonStr, "W"))
                     IN  /\ west.ok
                         /\ west.point = <<last.point[1], 0 - last.point[2]>>
                         /\ parsePoint(Hemisphere(last.lonStr, "W"))
                                = [f \in DOMAIN parsePoint(last.lonStr) |->
                                      IF f = "ok" THEN TRUE
                                      ELSE 0 - parsePoint(last.lonStr)[f]]

\* A northern latitude and an eastern longitude with zero degrees have
\* decoded to a position that is not the origin.
C35_Witness ==
    /\ pc = "returned"
    /\ last.ok
    /\ last.latStr[1] = "N"
    /\ last.lonStr[1] = "E"
    /\ SubSeq(last.latStr, 2, 3) = <<"0", "0">>
    /\ SubSeq(last.lonStr, 2, 4) = <<"0", "0", "0">>
    /\ last.point[1] > 0
    /\ last.point[2] > 0
    /\ LatLon(Hemisphere(last.latStr, "S"), Hemisphere(last.lonStr, "W")).point
           = <<0 - last.point[1], 0 - last.point[2]>>

\* The degrees, minutes and seconds sub-fields of a coordinate text of 9 or
\* 10 bytes: after the hemisphere letter, the last four bytes are the
\* seconds, the two before them the minutes, the others the degrees.
SubFields(s) ==
    {SubSeq(s, 2, Len(s) - 6), SubSeq(s, Len(s) - 5, Len(s) - 4),
     SubSeq(s, Len(s) - 3, Len(s))}

\* The length of a coordinate text is outside [9, 10].
BadLength(s) == Len(s) < 9 \/ Len(s) > 10

\* A coordinate text of 9 or 10 bytes has a sub-field that is not made of
\* decimal digits only.
NotNumeric(s) == ~BadLength(s) /\ \E f \in SubFields(s) : ~IsDigits(f)

\* C36, as stated: LatLon returns an error, and no coordinates, whenever
\* the latitude or the longitude text has a length outside [9, 10] or has a
\* degrees, minutes or seconds sub-field that is not numeric; a sub-field
\* made only of decimal digits never causes an error.
C36_NonNumericFails ==
    pc = "returned"
        => /\ (\E s \in {last.latStr, last.lonStr} : BadLength(s) \/ NotNumeric(s))
                  <=> ~last.ok
           /\ ~last.ok => last.point = <<0, 0>>

\* The lines processed so far that are an NDB, a VHF navaid with a position
\* or an enroute waypoint with the identifier id.
GlobalLines(id) ==
    {k \in 1..pos : /\ IsGlobalPosition(file[k])
                    /\ ~(IsVHFNavaid(file[k]) /\ NoVORPosition(file[k]))
                    /\ GlobalWritten(file[k]) = id}

\* The most recent of them.
MostRecent(id) == CHOOSE k \in GlobalLines(id) : \A j \in GlobalLines(id) : j <= k

\* C38: the global waypoint map is one namespace keyed by identifier alone
\* and shared by NDB, VHF navaid and enroute waypoint records: after any
\* sequence of records it holds an identifier exactly when such a record
\* with a position carried it, with the position of the most recent one,
\* of whatever kind; and a final approach fix that the localizer's airport
\* does not hold is resolved to that position, whatever the kind and the
\* region of the record it came from.
C38_OneNamespace ==
    /\ DOMAIN p.OtherWaypoints
           = {GlobalWritten(file[k]) :
                  k \in {j \in 1..pos : GlobalLines(GlobalWritten(file[j])) # {}}}
    /\ \A id \in DOMAIN p.OtherWaypoints :
           p.OtherWaypoints[id] = PositionOf(file[MostRecent(id)])
    /\ (Called /\ IsLocalizerRecord(Line) /\ last.apch # <<>>
            /\ LocalFix(last.apch[1].FinalApproachFix) = <<>>
            /\ GlobalLines(last.apch[1].FinalApproachFix) # {})
           => LET fix == last.apch[1].FinalApproachFix
                  position == PositionOf(file[MostRecent(fix)])
              IN  /\ last.fapWaypoint = <<position>>
                  /\ IsTwoLines(last.processed)
                  /\ BearingField
                         = EncodeBearing(Normalised(BearingTo(position, PositionOf(Line))))

\* The localizer of KHWD, of region K2, got its bearing from the position
\* of the NDB PYE of region CAN, read after the VHF navaid PYE.
C38_Witness ==
    /\ pos = 4
    /\ file[1] = VOR
    /\ file[2] = NDBPYE
    /\ file[3] = ApproachProcedurePYE
    /\ Line = Localizer
    /\ PositionOf(VOR) # PositionOf(NDBPYE)
    /\ p.OtherWaypoints[<<"P", "Y", "E">>] = PositionOf(NDBPYE)
    /\ last.fapWaypoint = <<PositionOf(NDBPYE)>>
    /\ IsTwoLines(last.processed)

\* The runs of Process without duplicate removal on the records the main
\* pass has read so far.
RunsWithoutRemoval == MainLoop(newProcessor, SubSeq(file, 1, pos))

\* The record at line k of the file is a localizer that duplicate removal
\* drops.
DroppedAt(k) ==
    /\ IsLocalizerRecord(file[k])
    /\ file[k][18] \in {"A", "L"}
    /\ Occurrences(file, LocalizerOf(file[k])) >= 2

\* The bytes written for each line in turn, one after the other, without
\* those of the lines from k on that duplicate removal drops.
RECURSIVE KeptFrom(_, _)
KeptFrom(written, k) ==
    IF k > Len(written) THEN <<>>
    ELSE (IF DroppedAt(k) THEN <<>> ELSE written[k]) \o KeptFrom(written, k + 1)

\* The output of a run with duplicate removal is that of the run d without
\* it less the lines of the dropped localizers, and both reached the same
\* index.
SameButDropped(d) ==
    /\ d.err = ""
    /\ out = KeptFrom(d.written, 1)
    /\ p.Airports = d.p.Airports
    /\ p.OtherWaypoints = d.p.OtherWaypoints

\* C37, as stated: for the same input, the output with duplicate removal
\* enabled equals the output with it disabled with exactly the lines of the
\* dropped localizer records deleted, every other line, the bearing of
\* every kept localizer included, is identical in both runs, and the index
\* reached after each record is the same in both runs.
C37_SameButDropped ==
    (opt /\ Called /\ pc \in {"main", "done"})
        => \A d \in RunsWithoutRemoval : SameButDropped(d)

\* The bytes written for each line in turn, one after the other.
RECURSIVE Flatten(_)
Flatten(written) ==
    IF written = <<>> THEN <<>> ELSE Head(written) \o Flatten(Tail(written))

\* C39, as stated: with duplicate removal disabled, the lines written for a
\* record depend only on that record and the records before it: every run
\* on an input that starts with the records read so far writes for them
\* what this run has written for them.
C39_PrefixDetermines ==
    (~opt /\ Called /\ pc \in {"main", "done"})
        => \A d \in RunsWithoutRemoval : d.err = "" /\ out = Flatten(d.written)
====
